---- MODULE Spec2Model ----
(***************************************************************************)
(* Model of the delivery core of knative-eventing (package kncloudevents): *)
(* the dispatch pipeline send/executeRequest/DoWithRetries, the transformer *)
(* construction for dead-letter forwarding and the client cache.           *)
(*                                                                         *)
(* One dispatch call is followed from SendMessage to its return (or to a   *)
(* run-time panic).  The HTTP servers behind the destination, the reply    *)
(* target and the dead-letter sink are the environment: every attempt is   *)
(* answered by a transport error or by a response of HTTPResponses.        *)
(***************************************************************************)
EXTENDS Integers, Sequences, FiniteSets, TLC

VARIABLES
    pc,                     \* position of the dispatch call
    message,                \* the message handed to SendMessage
    destination,            \* the destination addressable of the call
    config,                 \* senderConfig built from the options
    hop,                    \* the executeRequest call in progress
    attempt,                \* attempts made by DoWithRetries in this hop
    response,               \* what DoWithRetries returned: [resp, err]
    executed,               \* what executeRequest returned: [message, info, err]
    hopErr,                 \* err of the failed hop whose dead letter is sent
    responseMessage,        \* event-encoded response of the destination
    responseAdditionalHeaders, \* headers handed to the reply hop
    dispatchExecutionInfo,  \* the DispatchInfo send holds
    requests,               \* every HTTP attempt made, in order
    clients,                \* the client cache (clients, http_client_new.go)
    messagesToFinish,       \* messages send finishes when it returns
    finished,               \* ids of the messages finished, in order
    ret,                    \* what send returned: [info, err]
    hops,                   \* history: every executeRequest call and its end
    clientsMutex,           \* whether clientsMutex is locked
    connectionArgs,         \* the ConnectionArgs in force (connectionArgs)
    calls,                  \* the call of a cache function each goroutine is in
    log,                    \* history: every finished call of a cache function
    entries,                \* the entries of the cron of the cronJobsRunner
    added,                  \* entries the cron has been given so far
    removed,                \* history: ids of the entries that were removed
    ticks,                  \* history: every run of the job of an entry
    input,                  \* the arguments of the function that is called
    output                  \* what the function returned (Nil before it does)

vars == <<pc, message, destination, config, hop, attempt, response, executed,
          hopErr, responseMessage, responseAdditionalHeaders,
          dispatchExecutionInfo, requests, clients, messagesToFinish,
          finished, ret, hops, clientsMutex, connectionArgs, calls, log,
          entries, added, removed, ticks, input, output>>

\* The state of the dispatch call, and the rest of the state of the cache.
dispatchVars == <<pc, message, destination, config, hop, attempt, response,
                  executed, hopErr, responseMessage, responseAdditionalHeaders,
                  dispatchExecutionInfo, requests, messagesToFinish, finished,
                  ret, hops>>
cacheVars == <<clientsMutex, connectionArgs, calls, log>>
\* The state of the cronJobsRunner.
runnerVars == <<entries, added, removed, ticks>>
\* A call of a function that is checked by itself.
callVars == <<input, output>>

\* The goroutines that call the functions of the cache.
Goroutines == {"g1", "g2"}

\* A nil pointer, nil map, nil slice or nil error.
Nil == [nil |-> TRUE]

----------------------------------------------------------------------------
\* Bounds of the model.

\* Largest RetryConfig.RetryMax a call is started with.
MaxRetry == 1

----------------------------------------------------------------------------
\* Program constants.

NoDuration == -1
NoResponse == -1
StatusOK == 200
StatusMultipleChoices == 300
StatusInternalServerError == 500
KnativeErrorDataExtensionMaxLength == 1024

\* network.GetServiceHostname("broker-filter", system.Namespace())
BrokerFilterHost == "broker-filter.knative-eventing.svc.cluster.local"

----------------------------------------------------------------------------
\* apis.URL: Scheme, Host and Path; Nil is the nil *apis.URL.

URLOf(scheme, host, path) == [Scheme |-> scheme, Host |-> host, Path |-> path]

\* (*apis.URL).String(): "" for nil, else scheme ":" "//" host path as
\* net/url prints a URL that has no opaque part, user, query or fragment.
URLString(u) ==
    IF u = Nil THEN ""
    ELSE (IF u.Scheme # "" THEN u.Scheme \o ":" ELSE "")
         \o (IF (u.Scheme # "" \/ u.Host # "") /\ (u.Host # "" \/ u.Path # "")
             THEN "//" ELSE "")
         \o u.Host \o u.Path

\* duckv1.Addressable: URL and CACerts (Nil: no CA certificates given).
Addressable(url, cacerts) == [URL |-> url, CACerts |-> cacerts]

\* A variant of sanitizeURL that keeps the path of the URL it rewrites.
sanitizeURLKeepsPath(url) ==
    IF url = Nil THEN Nil
    ELSE IF url.Scheme = "http" \/ url.Scheme = "https" THEN url
    ELSE URLOf("http", url.Host, url.Path)

sanitizeURL(url) ==
    IF url = Nil THEN Nil
    ELSE IF url.Scheme = "http" \/ url.Scheme = "https" THEN url
    ELSE URLOf("http", url.Host, "/")

sanitizeAddressable(addressable) ==
    IF addressable = Nil THEN Nil
    ELSE [addressable EXCEPT !.URL = sanitizeURL(addressable.URL)]

----------------------------------------------------------------------------
\* http.Header, reduced to the two headers the pipeline reads or writes:
\* Prefer and eventingapis.KnNamespaceHeader ("" is an absent header).

Header(prefer, kn) == [Prefer |-> prefer, Kn |-> kn]
EmptyHeader == Header("", "")

\* http.Header.Get: "" for an absent header and for a nil map.
HeaderGet(h, key) == IF h = Nil THEN "" ELSE h[key]

\* A variant of HeaderSet that keeps a value the header already has.
HeaderSetIfAbsent(h, key, value) ==
    IF h[key] = "" THEN [h EXCEPT ![key] = value] ELSE h

\* http.Header.Set on a non-nil map.
HeaderSet(h, key, value) == [h EXCEPT ![key] = value]

----------------------------------------------------------------------------
\* Bodies are byte sequences (a nil []byte is the empty sequence).

EmptyBody == <<>>
ShortBody == <<104, 105>>
\* The longest body whose base64 encoding fits the extension, and the
\* shortest that does not.
FittingBody == [i \in 1..((KnativeErrorDataExtensionMaxLength \div 4) * 3) |-> 97]
LongBody == [i \in 1..((KnativeErrorDataExtensionMaxLength \div 4) * 3 + 1) |-> 97]
\* The JSON documents {} and
\* {"errDestination":"http://orig/","errResponseBody":"aGk="}, the latter
\* abbreviated to its braces around a marker byte.
EmptyJSONBody == <<123, 125>>
ErrInfoJSONBody == <<123, 1, 125>>

OrigURL == URLOf("http", "orig", "/")

\* json.Unmarshal(body, &broker.ErrExtensionInfo{}) on the bodies above: an
\* object without the two fields leaves both nil, a body that is no JSON
\* document is an error.
jsonUnmarshalErrExtensionInfo(body) ==
    IF body = EmptyJSONBody
    THEN [err |-> FALSE, ErrDestination |-> Nil, ErrResponseBody |-> EmptyBody]
    ELSE IF body = ErrInfoJSONBody
    THEN [err |-> FALSE, ErrDestination |-> OrigURL, ErrResponseBody |-> ShortBody]
    ELSE [err |-> TRUE, ErrDestination |-> Nil, ErrResponseBody |-> EmptyBody]

\* base64.StdEncoding.EncodedLen
EncodedLen(n) == ((n + 2) \div 3) * 4

\* base64.StdEncoding applied to a whole byte sequence: character k of the
\* text is one of the four digits 0..63 of a group of three bytes; the last
\* group is filled with zero bits and padded with "=", written 64.
StdEncode(src) ==
    LET byte(i) == IF i <= Len(src) THEN src[i] ELSE 0
        val(g) == byte(3 * g + 1) * 65536 + byte(3 * g + 2) * 256 + byte(3 * g + 3)
        char(k) ==
            LET g == (k - 1) \div 4
                pos == (k - 1) % 4
            IN  IF pos = 0 THEN (val(g) \div 262144) % 64
                ELSE IF pos = 1 THEN (val(g) \div 4096) % 64
                ELSE IF pos = 2
                THEN IF 3 * g + 2 > Len(src) THEN 64 ELSE (val(g) \div 64) % 64
                ELSE IF 3 * g + 3 > Len(src) THEN 64 ELSE val(g) % 64
    IN  [k \in 1..EncodedLen(Len(src)) |-> char(k)]

\* base64.StdEncoding.Encode(dst, src) with len(dst) = dstLen: Encode writes
\* EncodedLen(len(src)) bytes and indexes dst out of range, a run-time panic,
\* when dst is shorter.
Encode(dstLen, src) ==
    IF EncodedLen(Len(src)) > dstLen
    THEN [panic |-> TRUE, buf |-> <<>>]
    ELSE [panic |-> FALSE, buf |-> StdEncode(src)]

----------------------------------------------------------------------------
\* Errors are records: the format of the fmt.Errorf call, the URLs and the
\* causes it prints, and a status code where it prints one.

Error(format, urls, causes, code) ==
    [fmt |-> format, urls |-> urls, causes |-> causes, code |-> code]

\* The error of a failed http.Client.Do (connection refused, reset, timeout).
TransportError == Error("transport error", <<>>, <<>>, 0)

----------------------------------------------------------------------------
\* Messages: id, encoding ("event" stands for binary or structured,
\* "unknown" is binding.EncodingUnknown) and the knativeerror* extension
\* attributes (Nil when the event carries none).

Message(id, encoding) == [id |-> id, encoding |-> encoding, ext |-> Nil]

\* attributes.KnativeErrorTransformers(destination, code, data): the
\* transformers that set knativeerrordest, knativeerrorcode, knativeerrordata.
KnativeErrorTransformers(dest, code, data) ==
    [knativeerrordest |-> dest, knativeerrorcode |-> code, knativeerrordata |-> data]

\* A variant of Transform that writes the message and drops the transformers.
TransformNothing(msg, transformers) == msg

\* The event cehttp.WriteRequest writes: the message with the transformers
\* applied (Nil: no transformer, or an empty binding.Transformers).
Transform(msg, transformers) ==
    IF transformers = Nil THEN msg ELSE [msg EXCEPT !.ext = transformers]

----------------------------------------------------------------------------
\* DispatchInfo

DispatchInfo(duration, code, header, body) ==
    [Duration |-> duration, ResponseCode |-> code,
     ResponseHeader |-> header, ResponseBody |-> body]

\* &DispatchInfo{}
ZeroDispatchInfo == DispatchInfo(0, 0, Nil, EmptyBody)

\* A variant of isFailure that takes only server errors for failures, so
\* that a redirect counts as a success.
isFailureServerErrorOnly(statusCode) == statusCode >= StatusInternalServerError

isFailure(statusCode) ==
    statusCode < StatusOK \/ statusCode >= StatusMultipleChoices

Min(a, b) == IF a < b THEN a ELSE b

\* Returns [panic, transformers]; transformers is Nil where the code returns
\* nil.
dispatchExecutionInfoTransformers(dest, info) ==
    LET d1 == IF dest = Nil THEN URLOf("", "", "") ELSE dest
        filter == d1.Host = BrokerFilterHost
        errExtensionInfo == jsonUnmarshalErrExtensionInfo(info.ResponseBody)
    IN  IF filter /\ errExtensionInfo.err
        THEN [panic |-> FALSE, transformers |-> Nil]
        ELSE LET d2 == IF filter THEN errExtensionInfo.ErrDestination ELSE d1
                 httpResponseBody == IF filter THEN errExtensionInfo.ErrResponseBody
                                     ELSE info.ResponseBody
                 d3 == sanitizeURL(d2)
                 encodedLen == Min(EncodedLen(Len(httpResponseBody)),
                                   KnativeErrorDataExtensionMaxLength)
                 encoded == Encode(encodedLen, httpResponseBody)
             IN  IF encoded.panic
                 THEN [panic |-> TRUE, transformers |-> Nil]
                 ELSE [panic |-> FALSE,
                       transformers |->
                           KnativeErrorTransformers(URLString(d3), info.ResponseCode,
                                                    SubSeq(encoded.buf, 1, encodedLen))]

----------------------------------------------------------------------------
\* What a call is started with, and what the servers answer.

\* CA certificates of an addressable: the PEM text ("garbage" is no PEM).
CACerts(pem) == [pem |-> pem]

\* The destination has no URL, a URL, only a host, or is the broker filter.
Destinations ==
    {Addressable(Nil, Nil),
     Addressable(URLOf("http", "dest", "/"), Nil),
     Addressable(URLOf("", "dest", ""), Nil),
     Addressable(URLOf("http", "dest", "/"), CACerts("garbage")),
     Addressable(URLOf("http", BrokerFilterHost, "/"), Nil)}

Replies ==
    {Nil, Addressable(URLOf("http", "reply", "/"), Nil),
     Addressable(URLOf("", "reply", ""), CACerts("garbage"))}

DeadLetterSinks ==
    {Nil, Addressable(URLOf("http", "dls", "/"), Nil),
     Addressable(URLOf("https", "dls", "/"), CACerts("garbage")),
     Addressable(URLOf("http", "dest", "/"), CACerts("garbage")),
     Addressable(URLOf("ftp", "dls", "/files"), Nil)}

\* WithHeader is not used, is used with a nil header, or with headers.
AdditionalHeaders == {EmptyHeader, Nil, Header("return=minimal", "ns1")}

\* RetryConfig: RetryMax and the predicate CheckRetry ("never": nothing is
\* retried, "ifFailure": errors and non-2xx responses are).
RetryConfig(retryMax, checkRetry) == [RetryMax |-> retryMax, CheckRetry |-> checkRetry]

\* No WithRetryConfig, or one of the bounded configurations.
RetryConfigs ==
    {Nil, RetryConfig(MaxRetry, "never")}
        \cup {RetryConfig(n, "ifFailure") : n \in 0..MaxRetry}

Messages == {Message("m", "event"), Message("m", "unknown")}

\* An HTTP response: status, the encoding its headers announce, its body and
\* whether reading the body fails before its end.
HTTPResponse(status, encoding, body, readErr) ==
    [StatusCode |-> status, Header |-> EmptyHeader, encoding |-> encoding,
     body |-> body, readErr |-> readErr]

\* The answers of a server: success with and without an event, a redirect
\* that carries an event, failures with the bodies above, and bodies that
\* cannot be read.
HTTPResponses ==
    {HTTPResponse(StatusOK, "event", ShortBody, FALSE),
     HTTPResponse(StatusOK, "unknown", EmptyBody, FALSE),
     HTTPResponse(StatusOK, "event", EmptyBody, TRUE),
     HTTPResponse(StatusOK, "unknown", EmptyBody, TRUE),
     HTTPResponse(StatusMultipleChoices, "event", ShortBody, FALSE),
     HTTPResponse(StatusInternalServerError, "unknown", ShortBody, FALSE),
     HTTPResponse(StatusInternalServerError, "unknown", LongBody, FALSE),
     HTTPResponse(StatusInternalServerError, "unknown", EmptyJSONBody, FALSE),
     HTTPResponse(StatusInternalServerError, "unknown", ErrInfoJSONBody, FALSE),
     HTTPResponse(StatusInternalServerError, "unknown", EmptyBody, TRUE)}

\* Results of one http.Client.Do.
DoResult(resp, err) == [resp |-> resp, err |-> err]
DoResults == {DoResult(Nil, TransportError)} \cup {DoResult(r, Nil) : r \in HTTPResponses}

----------------------------------------------------------------------------
Init ==
    /\ pc = "idle"
    /\ message = Nil
    /\ destination = Nil
    /\ config = Nil
    /\ hop = Nil
    /\ attempt = 0
    /\ response = Nil
    /\ executed = Nil
    /\ hopErr = Nil
    /\ responseMessage = Nil
    /\ responseAdditionalHeaders = Nil
    /\ dispatchExecutionInfo = Nil
    /\ requests = <<>>
    /\ clients = [k \in {} |-> Nil]
    /\ messagesToFinish = <<>>
    /\ finished = <<>>
    /\ ret = Nil
    /\ hops = <<>>
    /\ clientsMutex = FALSE
    /\ connectionArgs = Nil
    /\ calls = [g \in Goroutines |-> Nil]
    /\ log = <<>>
    /\ entries = [id \in {} |-> Nil]
    /\ added = 0
    /\ removed = {}
    /\ ticks = <<>>
    /\ input = Nil
    /\ output = Nil

\* The options of SendMessage.  WithRetryConfig is the option that sets
\* senderConfig.retryConfig, the field executeRequest is handed.
WithReply(sc, reply) == [sc EXCEPT !.reply = reply]
WithDeadLetterSink(sc, dls) == [sc EXCEPT !.deadLetterSink = dls]
WithHeader(sc, header) == [sc EXCEPT !.additionalHeaders = header]
WithRetryConfig(sc, retryConfig) == [sc EXCEPT !.retryConfig = retryConfig]

\* The addressables of a call as the caller passed them.
SendArguments(dest, reply, dls) ==
    [destination |-> dest, reply |-> reply, deadLetterSink |-> dls]

\* SendMessage: the senderConfig starts with an empty header and every
\* option sets its field.  destination is passed by value; WithReply and
\* WithDeadLetterSink store the pointers of the caller, so that config.reply
\* and config.deadLetterSink are the addressables the caller holds.
SendMessage(msg, dest, reply, dls, header, retryConfig) ==
    /\ pc = "idle"
    /\ UNCHANGED cacheVars
    /\ UNCHANGED runnerVars
    /\ input' = SendArguments(dest, reply, dls)
    /\ UNCHANGED output
    /\ message' = msg
    /\ destination' = dest
    /\ config' = WithRetryConfig(
                     WithHeader(
                         WithDeadLetterSink(
                             WithReply([reply |-> Nil, deadLetterSink |-> Nil,
                                        additionalHeaders |-> EmptyHeader,
                                        retryConfig |-> Nil], reply),
                             dls),
                         header),
                     retryConfig)
    /\ pc' = "send"
    /\ UNCHANGED <<hop, attempt, response, executed, hopErr, responseMessage,
                   responseAdditionalHeaders, dispatchExecutionInfo, requests,
                   clients, messagesToFinish, finished, ret, hops>>

\* A variant of Finish that finishes the slice as it was when the function
\* was deferred: the original message alone.
FinishDeferredSlice(msgs) == IF msgs = <<>> THEN <<>> ELSE <<msgs[1].id>>

\* The deferred loop of send: every message of messagesToFinish is finished.
Finish(msgs) == [i \in 1..Len(msgs) |-> msgs[i].id]

\* A return of send: the deferred function runs, the caller gets info, err.
Return(info, err, toFinish) ==
    /\ pc' = "returned"
    /\ ret' = [info |-> info, err |-> err]
    /\ messagesToFinish' = toFinish
    /\ finished' = finished \o Finish(toFinish)

\* The call of executeRequest(target, msg, additionalHeaders, retryConfig,
\* transformers...) for a hop of the pipeline.
\* after names the failed hop a dead-letter hop follows; request is the
\* http.Request once createRequest has built it, client the client once
\* newClient has returned it.
Hop(kind, after, target, msg, additionalHeaders, transformers) ==
    [kind |-> kind, after |-> after, target |-> target, message |-> msg,
     additionalHeaders |-> additionalHeaders, transformers |-> transformers,
     request |-> Nil, client |-> Nil]

ErrNilDestination ==
    Error("can not dispatch message to nil destination.URL", <<>>, <<>>, 0)

\* send, from its entry to the call of executeRequest for the destination.
\* sanitizeAddressable assigns the URL field of the addressable it is handed
\* a pointer to: of the copy that destination is, and of the addressables of
\* the caller that config.reply and config.deadLetterSink point to.
sendDestination ==
    /\ pc = "send"
    /\ UNCHANGED cacheVars
    /\ UNCHANGED runnerVars
    /\ UNCHANGED callVars
    /\ dispatchExecutionInfo' = ZeroDispatchInfo
    /\ IF destination.URL = Nil
       THEN /\ Return(ZeroDispatchInfo, ErrNilDestination, <<message>>)
            /\ UNCHANGED <<destination, config, hop>>
       ELSE /\ destination' = sanitizeAddressable(destination)
            /\ config' = [config EXCEPT
                             !.reply = sanitizeAddressable(config.reply),
                             !.deadLetterSink = sanitizeAddressable(config.deadLetterSink)]
            /\ hop' = Hop("destination", "", destination', message,
                          HeaderSet(IF config.additionalHeaders # Nil
                                    THEN config.additionalHeaders
                                    ELSE EmptyHeader, "Prefer", "reply"),
                          Nil)
            /\ pc' = "executeRequest"
            /\ messagesToFinish' = <<message>>
            /\ UNCHANGED <<finished, ret>>
    /\ UNCHANGED <<message, attempt, response, executed, hopErr,
                   responseMessage, responseAdditionalHeaders, requests,
                   clients, hops>>

----------------------------------------------------------------------------
\* executeRequest

\* binding.ErrUnknownEncoding, which cehttp.WriteRequest returns for a
\* message of unknown encoding.
ErrUnknownEncoding == Error("unknown Message encoding", <<>>, <<>>, 0)

\* Returns [request, err].  The request is POST target.URL.String() carrying
\* the transformed event; every additional header replaces the request's.
createRequest(msg, target, additionalHeaders, transformers) ==
    IF msg.encoding = "unknown"
    THEN [request |-> Nil,
          err |-> Error("could not write message to request: %w", <<>>,
                        <<ErrUnknownEncoding>>, 0)]
    ELSE [request |-> [url |-> URLString(target.URL),
                       header |-> IF additionalHeaders = Nil THEN EmptyHeader
                                  ELSE additionalHeaders,
                       event |-> Transform(msg, transformers)],
          err |-> Nil]

\* x509 CertPool.AppendCertsFromPEM: whether any certificate was parsed.
AppendCertsFromPEM(pem) == pem \notin {"", "garbage"}

\* A variant of createNewClient that ignores CA certificates it cannot parse.
createNewClientUnchecked(addressable) ==
    [client |-> [CACerts |-> addressable.CACerts], err |-> Nil]

\* Returns [client, err]; a client is known by the CA certificates it trusts.
createNewClient(addressable) ==
    IF addressable.CACerts # Nil /\ addressable.CACerts.pem # ""
       /\ ~AppendCertsFromPEM(addressable.CACerts.pem)
    THEN [client |-> Nil,
          err |-> Error("failed to append CA certs from PEM to cert pool", <<>>, <<>>, 0)]
    ELSE [client |-> [CACerts |-> addressable.CACerts], err |-> Nil]

\* A variant of getClientForAddressable that builds a client for every
\* call and leaves the cache aside.
getClientWithoutCache(addressable, cache) ==
    LET new == createNewClient(addressable)
    IN  [client |-> new.client, err |-> new.err, clients |-> cache]

\* Returns [client, err, clients]: the cached client of the URL string, or a
\* new one which is cached.
getClientForAddressable(addressable, cache) ==
    LET clientKey == URLString(addressable.URL)
    IN  IF clientKey \in DOMAIN cache
        THEN [client |-> cache[clientKey], err |-> Nil, clients |-> cache]
        ELSE LET new == createNewClient(addressable)
             IN  IF new.err # Nil
                 THEN [client |-> Nil,
                       err |-> Error("failed to create new client for addressable: %w",
                                     <<>>, <<new.err>>, 0),
                       clients |-> cache]
                 ELSE [client |-> new.client, err |-> Nil,
                       clients |-> [k \in DOMAIN cache \cup {clientKey} |->
                                       IF k = clientKey THEN new.client ELSE cache[k]]]

Executed(msg, info, err) == [message |-> msg, info |-> info, err |-> err]

\* The DispatchInfo executeRequest starts from.
InitialDispatchInfo == DispatchInfo(NoDuration, NoResponse, EmptyHeader, EmptyBody)

\* History of an executeRequest call: the hop, how it ended ("ok", "failed"
\* or "panic"), the attempts made, the result of the last one and what
\* executeRequest returned.
HopEnd(h, outcome, attempts, result, ex) ==
    [kind |-> h.kind, after |-> h.after, target |-> h.target,
     message |-> h.message, outcome |-> outcome, attempts |-> attempts,
     result |-> result, executed |-> ex]

\* []byte(fmt.Sprintf("dispatch error: %s", err.Error()))
DispatchErrorBody == <<100, 105, 115, 112, 97, 116, 99, 104>>

\* What executeRequest returns when no client can be had for the target.  The
\* dispatcher asks for the client before it starts the clock; the sender asks
\* inside SendWithRetries, where getConfiguredHttpClient and SendWithRetries
\* each wrap the error and executeRequest reports it as a failed send.
ClientFailure(sender, err) ==
    IF sender
    THEN Executed(Nil,
                  DispatchInfo(1, StatusInternalServerError, EmptyHeader,
                               DispatchErrorBody),
                  Error("failed to get client for addressable: %w", <<>>,
                        <<Error("failed to get client for addressable: %w",
                                <<>>, <<err>>, 0)>>, 0))
    ELSE Executed(Nil, InitialDispatchInfo,
                  Error("failed to get http client for addressable: %w",
                        <<>>, <<err>>, 0))

\* executeRequest up to the first attempt: the request is built, then the
\* client is taken from the cache.
executeRequestBegins(sender) ==
    /\ pc = "executeRequest"
    /\ UNCHANGED cacheVars
    /\ UNCHANGED runnerVars
    /\ UNCHANGED callVars
    /\ LET req == createRequest(hop.message, hop.target, hop.additionalHeaders,
                                hop.transformers)
           got == getClientForAddressable(hop.target, clients)
       IN  IF req.err # Nil
           THEN /\ executed' = Executed(Nil, InitialDispatchInfo, req.err)
                /\ pc' = "resume"
                /\ hops' = Append(hops, HopEnd(hop, "failed", 0, Nil, executed'))
                /\ UNCHANGED <<hop, clients, attempt>>
           ELSE IF got.err # Nil
           THEN /\ executed' = ClientFailure(sender, got.err)
                /\ pc' = "resume"
                /\ hops' = Append(hops, HopEnd(hop, "failed", 0, Nil, executed'))
                /\ UNCHANGED <<hop, clients, attempt>>
           ELSE /\ hop' = [hop EXCEPT !.request = req.request,
                                       !.client = got.client]
                /\ clients' = got.clients
                /\ attempt' = 0
                /\ pc' = "Do"
                /\ UNCHANGED <<executed, hops>>
    /\ UNCHANGED <<message, destination, config, response, hopErr,
                   responseMessage, responseAdditionalHeaders,
                   dispatchExecutionInfo, requests, messagesToFinish,
                   finished, ret>>

\* executeRequest of the dispatcher up to client.DoWithRetries.
executeRequestStart == executeRequestBegins(FALSE)

\* RetryConfig.CheckRetry, a predicate the caller supplies.
CheckRetry(retryConfig, result) ==
    IF retryConfig.CheckRetry = "never" THEN FALSE
    ELSE result.err # Nil \/ isFailure(result.resp.StatusCode)

\* A variant of Retries that tries a second time after a transport error,
\* with or without a RetryConfig.
RetriesOnError(retryConfig, attempts, result) ==
    attempts < 2 /\ result.err # Nil

\* Whether DoWithRetries makes another attempt after the given number of
\* attempts ended with result: never without a RetryConfig, else while
\* CheckRetry asks for it and fewer than RetryMax retries were made.
Retries(retryConfig, attempts, result) ==
    /\ retryConfig # Nil
    /\ CheckRetry(retryConfig, result)
    /\ retryConfig.RetryMax - (attempts - 1) > 0

\* One attempt of client.DoWithRetries: the request is sent and answered.
clientDo(result) ==
    /\ pc = "Do"
    /\ UNCHANGED cacheVars
    /\ UNCHANGED runnerVars
    /\ UNCHANGED callVars
    /\ requests' = Append(requests,
                          [hop |-> hop.kind, url |-> hop.request.url,
                           header |-> hop.request.header,
                           event |-> hop.request.event,
                           client |-> hop.client])
    /\ attempt' = attempt + 1
    /\ IF Retries(config.retryConfig, attempt + 1, result)
       THEN UNCHANGED <<pc, response>>
       ELSE /\ response' = result
            /\ pc' = "response"
    /\ UNCHANGED <<message, destination, config, hop, executed, hopErr,
                   responseMessage, responseAdditionalHeaders,
                   dispatchExecutionInfo, clients, messagesToFinish,
                   finished, ret, hops>>

\* utils.PassThroughHeaders: the response headers that are forwarded; neither
\* Prefer nor the namespace header is among them.
PassThroughHeaders(header) == EmptyHeader

\* cehttp.NewMessage(response.Header, body): the response as a message.
ResponseMessage(kind, resp) == Message(kind \o "-response", resp.encoding)

\* executeRequest after client.DoWithRetries.  Returns [panic, executed]:
\* where reading the body failed the code formats err.Error() with the nil
\* err of DoWithRetries, a nil dereference.
\* elapsed is the Duration a hop that got a response reports.
executeRequestResult(kind, result, elapsed) ==
    IF result.err # Nil
    THEN [panic |-> FALSE,
          executed |-> Executed(Nil,
                                DispatchInfo(1, StatusInternalServerError,
                                             EmptyHeader, DispatchErrorBody),
                                result.err)]
    ELSE LET resp == result.resp
             header == PassThroughHeaders(resp.Header)
         IN  IF resp.readErr
             THEN [panic |-> TRUE, executed |-> Nil]
             ELSE IF isFailure(resp.StatusCode)
             THEN [panic |-> FALSE,
                   executed |->
                       Executed(Nil,
                                DispatchInfo(elapsed, resp.StatusCode, header, resp.body),
                                Error("unexpected HTTP response, expected 2xx, got %d",
                                      <<>>, <<>>, resp.StatusCode))]
             ELSE [panic |-> FALSE,
                   executed |->
                       Executed(IF resp.encoding = "unknown" THEN Nil
                                ELSE ResponseMessage(kind, resp),
                                DispatchInfo(elapsed, resp.StatusCode, header, EmptyBody),
                                Nil)]

\* A run-time panic unwinds send: its deferred function runs, nothing is
\* returned.
Panic ==
    /\ pc' = "panic"
    /\ finished' = finished \o Finish(messagesToFinish)
    /\ UNCHANGED <<ret, messagesToFinish>>

executeRequestReturns(elapsed) ==
    /\ pc = "response"
    /\ UNCHANGED cacheVars
    /\ UNCHANGED runnerVars
    /\ UNCHANGED callVars
    /\ LET r == executeRequestResult(hop.kind, response, elapsed)
       IN  IF r.panic
           THEN /\ Panic
                /\ hops' = Append(hops, HopEnd(hop, "panic", attempt, response, Nil))
                /\ UNCHANGED executed
           ELSE /\ executed' = r.executed
                /\ pc' = "resume"
                /\ hops' = Append(hops, HopEnd(hop, IF r.executed.err # Nil
                                                    THEN "failed" ELSE "ok",
                                               attempt, response, r.executed))
                /\ UNCHANGED <<ret, messagesToFinish, finished>>
    /\ UNCHANGED <<message, destination, config, hop, attempt, response,
                   hopErr, responseMessage, responseAdditionalHeaders,
                   dispatchExecutionInfo, requests, clients>>

\* executeRequest of the dispatcher: dispatchInfo.Duration is set as soon as
\* DoWithRetries returns.
executeRequestEnd == executeRequestReturns(1)

----------------------------------------------------------------------------
\* send after executeRequest has returned.

ErrDestination(dest, err) ==
    Error("unable to complete request to %s: %v", <<URLString(dest.URL)>>, <<err>>, 0)

\* A variant of ErrDestinationAndDeadLetter that reports the destination's
\* failure alone, as if no dead letter had been sent.
ErrDestinationOnly(dest, err, dls, deadLetterErr) == ErrDestination(dest, err)

ErrDestinationAndDeadLetter(dest, err, dls, deadLetterErr) ==
    Error("unable to complete request to either %s (%v) or %s (%v)",
          <<URLString(dest.URL), URLString(dls.URL)>>, <<err, deadLetterErr>>, 0)

ErrReply(reply, err) ==
    Error("failed to forward reply to %s: %v", <<URLString(reply.URL)>>, <<err>>, 0)

ErrReplyAndDeadLetter(reply, err, dls, deadLetterErr) ==
    Error("failed to forward reply to %s (%v) and failed to send it to the dead letter sink %s (%v)",
          <<URLString(reply.URL), URLString(dls.URL)>>, <<err, deadLetterErr>>, 0)

\* The branch taken when a hop to target failed with err: the original
\* message goes to the dead-letter sink with the transformers of the failure,
\* or, without a dead-letter sink, the failure is returned.
HopFailed(kind, target, headers, failure) ==
    IF config.deadLetterSink # Nil
    THEN LET t == dispatchExecutionInfoTransformers(target.URL, executed.info)
         IN  IF t.panic
             THEN Panic /\ UNCHANGED <<hop, hopErr>>
             ELSE /\ hop' = Hop("deadLetter", kind, config.deadLetterSink, message,
                                headers, t.transformers)
                  /\ hopErr' = executed.err
                  /\ pc' = "executeRequest"
                  /\ UNCHANGED <<ret, messagesToFinish, finished>>
    ELSE /\ Return(executed.info, failure, messagesToFinish)
         /\ UNCHANGED <<hop, hopErr>>

\* A variant of WithNamespaceHeader that leaves the headers as they are.
WithoutNamespaceHeader(header) == header

\* The namespace header of the call, set on the headers of the response.
WithNamespaceHeader(header) ==
    IF HeaderGet(config.additionalHeaders, "Kn") # ""
    THEN HeaderSet(IF header = Nil THEN EmptyHeader ELSE header, "Kn",
                   HeaderGet(config.additionalHeaders, "Kn"))
    ELSE header

sendAfterDestination ==
    /\ pc = "resume"
    /\ UNCHANGED cacheVars
    /\ UNCHANGED runnerVars
    /\ UNCHANGED callVars
    /\ hop.kind = "destination"
    /\ IF executed.err # Nil
       THEN /\ HopFailed("destination", destination, config.additionalHeaders,
                         ErrDestination(destination, executed.err))
            /\ dispatchExecutionInfo' = executed.info
            /\ UNCHANGED <<responseMessage, responseAdditionalHeaders>>
       ELSE LET header == WithNamespaceHeader(executed.info.ResponseHeader)
                info == [executed.info EXCEPT !.ResponseHeader = header]
            IN  /\ dispatchExecutionInfo' = info
                /\ responseAdditionalHeaders' = header
                /\ responseMessage' = executed.message
                /\ UNCHANGED hopErr
                /\ IF executed.message = Nil
                   THEN Return(info, Nil, messagesToFinish) /\ UNCHANGED hop
                   ELSE IF config.reply = Nil
                   THEN /\ Return(info, Nil, Append(messagesToFinish, executed.message))
                        /\ UNCHANGED hop
                   ELSE /\ messagesToFinish' = Append(messagesToFinish, executed.message)
                        /\ hop' = Hop("reply", "", config.reply, executed.message,
                                      header, Nil)
                        /\ pc' = "executeRequest"
                        /\ UNCHANGED <<ret, finished>>
    /\ UNCHANGED <<message, destination, config, attempt, response, executed,
                   requests, clients, hops>>

sendAfterReply ==
    /\ pc = "resume"
    /\ UNCHANGED cacheVars
    /\ UNCHANGED runnerVars
    /\ UNCHANGED callVars
    /\ hop.kind = "reply"
    /\ dispatchExecutionInfo' = executed.info
    /\ IF executed.err # Nil
       THEN HopFailed("reply", config.reply, responseAdditionalHeaders,
                      ErrReply(config.reply, executed.err))
       ELSE /\ Return(executed.info, Nil,
                      IF executed.message # Nil
                      THEN Append(messagesToFinish, executed.message)
                      ELSE messagesToFinish)
            /\ UNCHANGED <<hop, hopErr>>
    /\ UNCHANGED <<message, destination, config, attempt, response, executed,
                   responseMessage, responseAdditionalHeaders, requests, clients, hops>>

\* A variant of sendAfterDeadLetter that returns the DispatchInfo that send
\* holds, of the hop that failed, in place of the dead-letter hop's.
sendAfterDeadLetterReturnsFailedHop ==
    /\ pc = "resume"
    /\ UNCHANGED cacheVars
    /\ UNCHANGED runnerVars
    /\ UNCHANGED callVars
    /\ hop.kind = "deadLetter"
    /\ IF executed.err # Nil
       THEN Return(dispatchExecutionInfo,
                   IF hop.after = "destination"
                   THEN ErrDestinationAndDeadLetter(destination, hopErr,
                                                    config.deadLetterSink, executed.err)
                   ELSE ErrReplyAndDeadLetter(config.reply, hopErr,
                                              config.deadLetterSink, executed.err),
                   messagesToFinish)
       ELSE Return(dispatchExecutionInfo, Nil,
                   IF executed.message # Nil
                   THEN Append(messagesToFinish, executed.message)
                   ELSE messagesToFinish)
    /\ UNCHANGED <<message, destination, config, hop, attempt, response,
                   executed, hopErr, responseMessage, responseAdditionalHeaders,
                   dispatchExecutionInfo, requests, clients, hops>>

\* send after the executeRequest of the dead-letter hop: the dispatchExecutionInfo
\* that is returned is the variable the := of the branch declares, the
\* DispatchInfo of the dead-letter hop.
sendAfterDeadLetter ==
    /\ pc = "resume"
    /\ UNCHANGED cacheVars
    /\ UNCHANGED runnerVars
    /\ UNCHANGED callVars
    /\ hop.kind = "deadLetter"
    /\ IF executed.err # Nil
       THEN Return(executed.info,
                   IF hop.after = "destination"
                   THEN ErrDestinationAndDeadLetter(destination, hopErr,
                                                    config.deadLetterSink, executed.err)
                   ELSE ErrReplyAndDeadLetter(config.reply, hopErr,
                                              config.deadLetterSink, executed.err),
                   messagesToFinish)
       ELSE Return(executed.info, Nil,
                   IF executed.message # Nil
                   THEN Append(messagesToFinish, executed.message)
                   ELSE messagesToFinish)
    /\ UNCHANGED <<message, destination, config, hop, attempt, response,
                   executed, hopErr, responseMessage, responseAdditionalHeaders,
                   dispatchExecutionInfo, requests, clients, hops>>

----------------------------------------------------------------------------
Next ==
    \/ \E msg \in Messages, dest \in Destinations, reply \in Replies,
          dls \in DeadLetterSinks, header \in AdditionalHeaders,
          retryConfig \in RetryConfigs :
          SendMessage(msg, dest, reply, dls, header, retryConfig)
    \/ sendDestination
    \/ executeRequestStart
    \/ \E result \in DoResults : clientDo(result)
    \/ executeRequestEnd
    \/ sendAfterDestination
    \/ sendAfterReply
    \/ sendAfterDeadLetter

Spec == Init /\ [][Next]_vars

----------------------------------------------------------------------------
\* The request-based sender: send and executeRequest as written around
\* NewCloudEventRequest and Request.SendWithRetries.  It differs from the
\* dispatcher above in how send starts and in the Duration of a hop.

\* send, from its entry to its first call of executeRequest: without a
\* destination URL the message itself takes the place of the response and
\* goes to the reply target.
senderSend ==
    /\ pc = "send"
    /\ UNCHANGED cacheVars
    /\ UNCHANGED runnerVars
    /\ UNCHANGED callVars
    /\ destination' = sanitizeAddressable(destination)
    /\ config' = [config EXCEPT
                     !.reply = sanitizeAddressable(config.reply),
                     !.deadLetterSink = sanitizeAddressable(config.deadLetterSink)]
    /\ dispatchExecutionInfo' = Nil
    /\ IF destination.URL # Nil
       THEN /\ messagesToFinish' = <<message>>
            /\ hop' = Hop("destination", "", destination', message,
                          HeaderSet(IF config.additionalHeaders # Nil
                                    THEN config.additionalHeaders
                                    ELSE EmptyHeader, "Prefer", "reply"),
                          Nil)
            /\ pc' = "executeRequest"
            /\ UNCHANGED <<responseMessage, responseAdditionalHeaders, finished, ret>>
       ELSE /\ responseMessage' = message
            /\ responseAdditionalHeaders' = WithNamespaceHeader(config.additionalHeaders)
            /\ IF config.reply = Nil
               THEN Return(Nil, Nil, <<message>>) /\ UNCHANGED hop
               ELSE /\ messagesToFinish' = <<message>>
                    /\ hop' = Hop("reply", "", config'.reply, message,
                                  responseAdditionalHeaders', Nil)
                    /\ pc' = "executeRequest"
                    /\ UNCHANGED <<finished, ret>>
    /\ UNCHANGED <<message, attempt, response, executed, hopErr, requests,
                   clients, hops>>

\* executeRequest of the sender up to Request.SendWithRetries.
senderExecuteRequestStart == executeRequestBegins(TRUE)

\* executeRequest of the sender: dispatchInfo.Duration is set only where
\* SendWithRetries returned an error.
senderExecuteRequestEnd == executeRequestReturns(NoDuration)

NextSender ==
    \/ \E msg \in Messages, dest \in Destinations, reply \in Replies,
          dls \in DeadLetterSinks, header \in AdditionalHeaders,
          retryConfig \in RetryConfigs :
          SendMessage(msg, dest, reply, dls, header, retryConfig)
    \/ senderSend
    \/ senderExecuteRequestStart
    \/ \E result \in DoResults : clientDo(result)
    \/ senderExecuteRequestEnd
    \/ sendAfterDestination
    \/ sendAfterReply
    \/ sendAfterDeadLetter

SpecSender == Init /\ [][NextSender]_vars

----------------------------------------------------------------------------
\* The backoff function that generateBackoffFn builds for a RetryConfig, and
\* the call retryablehttp makes of it before a retry.  In this part of the
\* model config is the RetryConfig, attempt the attemptNum and response the
\* resp of the call, and ret is the Duration it returns.

\* Largest attemptNum the backoff function is called with.
MaxAttemptNum == 1
\* Largest number of seconds a server asks for in Retry-After.
MaxRetryAfter == 3

\* time.Second, with a Duration counted in milliseconds.
Second == 1000
StatusTooManyRequests == 429
StatusServiceUnavailable == 503

\* time.Now() when the backoff function runs.
Now == 1 * Second + 500

\* A header value is a sequence of characters; <<>> is an absent header.
Digits == <<"0", "1", "2", "3", "4", "5", "6", "7", "8", "9">>
IsDigit(c) == \E k \in DOMAIN Digits : Digits[k] = c
DigitValue(c) == (CHOOSE k \in DOMAIN Digits : Digits[k] = c) - 1

\* strconv.Itoa for -99..99.
Itoa(n) ==
    LET abs == IF n < 0 THEN 0 - n ELSE n
        text == IF abs < 10 THEN <<Digits[abs + 1]>>
                ELSE <<Digits[(abs \div 10) + 1], Digits[(abs % 10) + 1]>>
    IN  IF n < 0 THEN <<"-">> \o text ELSE text

\* The value of a sequence of decimal digits.
RECURSIVE DecimalValue(_)
DecimalValue(digits) ==
    IF digits = <<>> THEN 0
    ELSE DecimalValue(SubSeq(digits, 1, Len(digits) - 1)) * 10
             + DigitValue(digits[Len(digits)])

\* strconv.ParseInt(s, 10, 64): an optional sign and at least one digit,
\* nothing else.
ParseInt(s) ==
    LET signed == s # <<>> /\ s[1] \in {"+", "-"}
        digits == IF signed THEN Tail(s) ELSE s
    IN  IF digits = <<>> \/ \E i \in DOMAIN digits : ~IsDigit(digits[i])
        THEN [err |-> TRUE, value |-> 0]
        ELSE [err |-> FALSE,
              value |-> IF s[1] = "-" THEN 0 - DecimalValue(digits)
                        ELSE DecimalValue(digits)]

\* The text of an HTTP-date, abbreviated to "D" and the seconds of its time
\* since the start of the model's clock.
HTTPDate(seconds) == <<"D">> \o Itoa(seconds)

\* nethttp.ParseTime: the time of an HTTP-date, an error for any other text.
ParseTime(s) ==
    IF Len(s) >= 2 /\ s[1] = "D" /\ \A i \in 2..Len(s) : IsDigit(s[i])
    THEN [err |-> FALSE, time |-> DecimalValue(Tail(s)) * Second]
    ELSE [err |-> TRUE, time |-> 0]

\* What a server puts in Retry-After: nothing, a number of seconds, the
\* date that many seconds after the start of the clock, or another text.
RetryAfter(kind, n) == [kind |-> kind, n |-> n]

RetryAfterText(retryAfter) ==
    CASE retryAfter.kind = "none" -> <<>>
      [] retryAfter.kind = "seconds" -> Itoa(retryAfter.n)
      [] retryAfter.kind = "plusSeconds" -> <<"+">> \o Itoa(retryAfter.n)
      [] retryAfter.kind = "date" -> HTTPDate(retryAfter.n)
      [] retryAfter.kind = "fraction" -> Itoa(retryAfter.n) \o <<".", "5">>
      [] OTHER -> <<"s", "o", "o", "n">>

\* A response as the backoff function sees it: status and Retry-After
\* header, with what the server meant by the header.
RetryAfterResponse(status, retryAfter) ==
    [StatusCode |-> status,
     Header |-> [RetryAfter |-> RetryAfterText(retryAfter)],
     retryAfter |-> retryAfter]

\* A response whose header map is nil.
HeaderlessResponse(status) ==
    [StatusCode |-> status, Header |-> Nil, retryAfter |-> RetryAfter("none", 0)]

RetryAfters ==
    {RetryAfter("none", 0), RetryAfter("text", 0), RetryAfter("fraction", 1),
     RetryAfter("plusSeconds", MaxRetryAfter), RetryAfter("seconds", 12)}
        \cup {RetryAfter("seconds", n) : n \in -1..MaxRetryAfter}
        \cup {RetryAfter("date", n) : n \in 0..MaxRetryAfter + 1}

BackoffResponses ==
    {Nil}
        \cup {HeaderlessResponse(status) :
                  status \in {StatusTooManyRequests, StatusInternalServerError}}
        \cup {RetryAfterResponse(status, retryAfter) :
                  status \in {StatusOK, StatusTooManyRequests,
                              StatusInternalServerError,
                              StatusServiceUnavailable},
                  retryAfter \in RetryAfters}

\* RetryConfig.Backoff, a function the caller supplies: no wait, a constant
\* wait, or one that grows with the attempt.
Backoffs ==
    {[n \in 0..MaxAttemptNum |-> 0],
     [n \in 0..MaxAttemptNum |-> Second],
     [n \in 0..MaxAttemptNum |-> (n + 1) * (2 * Second)]}

\* A *time.Duration that is not nil, and the Duration it points to.
DurationPtr(d) == [duration |-> d]

\* RetryConfig.RetryAfterMaxDuration: nil, zero or a positive ceiling.
RetryAfterMaxDurations ==
    {Nil, DurationPtr(0), DurationPtr(2 * Second),
     DurationPtr((MaxRetryAfter + 1) * Second)}

BackoffRetryConfig(retryAfterMaxDuration, backoff) ==
    [RetryMax |-> MaxRetry, CheckRetry |-> "ifFailure",
     RetryAfterMaxDuration |-> retryAfterMaxDuration, Backoff |-> backoff]

BackoffRetryConfigs ==
    {BackoffRetryConfig(d, b) : d \in RetryAfterMaxDurations, b \in Backoffs}

\* A variant of parseRetryAfterDuration that reads delay-seconds only.
parseRetryAfterSeconds(resp) ==
    IF resp = Nil \/ resp.Header = Nil THEN 0
    ELSE IF ParseInt(resp.Header.RetryAfter).err THEN 0
         ELSE ParseInt(resp.Header.RetryAfter).value * Second

\* parseRetryAfterDuration: 0 without a response, header map or Retry-After
\* header; the seconds of a delay-seconds value; the time until an
\* HTTP-date; 0 for any other text.
parseRetryAfterDuration(resp) ==
    IF resp = Nil \/ resp.Header = Nil THEN 0
    ELSE LET retryAfterString == resp.Header.RetryAfter
             retryAfterInt == ParseInt(retryAfterString)
             retryAfterTime == ParseTime(retryAfterString)
         IN  IF Len(retryAfterString) <= 0 THEN 0
             ELSE IF ~retryAfterInt.err THEN retryAfterInt.value * Second
             ELSE IF retryAfterTime.err THEN 0
             ELSE retryAfterTime.time - Now

\* A variant of generateBackoffFn without the ceiling.
generateBackoffFnNoMax(cfg, attemptNum, resp) ==
    LET retryAfterDuration ==
            IF /\ cfg.RetryAfterMaxDuration # Nil
               /\ resp # Nil
               /\ resp.StatusCode \in {StatusTooManyRequests, StatusServiceUnavailable}
            THEN parseRetryAfterDuration(resp)
            ELSE 0
        backoffDuration == cfg.Backoff[attemptNum]
    IN  IF retryAfterDuration > backoffDuration THEN retryAfterDuration
        ELSE backoffDuration

\* A variant of generateBackoffFn that respects Retry-After, without a
\* ceiling, when RetryAfterMaxDuration is nil.
generateBackoffFnOptOut(cfg, attemptNum, resp) ==
    LET parsed == parseRetryAfterDuration(resp)
        retryAfterDuration ==
            IF /\ resp # Nil
               /\ resp.StatusCode \in {StatusTooManyRequests, StatusServiceUnavailable}
            THEN IF cfg.RetryAfterMaxDuration # Nil
                    /\ cfg.RetryAfterMaxDuration.duration < parsed
                 THEN cfg.RetryAfterMaxDuration.duration
                 ELSE parsed
            ELSE 0
        backoffDuration == cfg.Backoff[attemptNum]
    IN  IF retryAfterDuration > backoffDuration THEN retryAfterDuration
        ELSE backoffDuration

\* The function generateBackoffFn(cfg) returns, applied to attemptNum and
\* resp: the larger of the configured backoff and, for a 429 or 503 when
\* RetryAfterMaxDuration is not nil, the Retry-After duration cut to
\* RetryAfterMaxDuration.
generateBackoffFn(cfg, attemptNum, resp) ==
    LET parsed == parseRetryAfterDuration(resp)
        retryAfterDuration ==
            IF /\ cfg.RetryAfterMaxDuration # Nil
               /\ resp # Nil
               /\ resp.StatusCode \in {StatusTooManyRequests, StatusServiceUnavailable}
            THEN IF cfg.RetryAfterMaxDuration.duration < parsed
                 THEN cfg.RetryAfterMaxDuration.duration
                 ELSE parsed
            ELSE 0
        backoffDuration == cfg.Backoff[attemptNum]
    IN  IF retryAfterDuration > backoffDuration THEN retryAfterDuration
        ELSE backoffDuration

\* retryablehttp is about to wait before a retry: any RetryConfig, attempt
\* number and response.
InitBackoff ==
    /\ pc = "Backoff"
    /\ config \in BackoffRetryConfigs
    /\ attempt \in 0..MaxAttemptNum
    /\ response \in BackoffResponses
    /\ ret = Nil
    /\ message = Nil
    /\ destination = Nil
    /\ hop = Nil
    /\ executed = Nil
    /\ hopErr = Nil
    /\ responseMessage = Nil
    /\ responseAdditionalHeaders = Nil
    /\ dispatchExecutionInfo = Nil
    /\ requests = <<>>
    /\ clients = [k \in {} |-> Nil]
    /\ messagesToFinish = <<>>
    /\ finished = <<>>
    /\ hops = <<>>
    /\ clientsMutex = FALSE
    /\ connectionArgs = Nil
    /\ calls = [g \in Goroutines |-> Nil]
    /\ log = <<>>
    /\ entries = [id \in {} |-> Nil]
    /\ added = 0
    /\ removed = {}
    /\ ticks = <<>>
    /\ input = Nil
    /\ output = Nil

\* c.Backoff(c.RetryWaitMin, c.RetryWaitMax, attemptNum, resp)
Backoff ==
    /\ pc = "Backoff"
    /\ UNCHANGED cacheVars
    /\ UNCHANGED runnerVars
    /\ UNCHANGED callVars
    /\ ret' = generateBackoffFn(config, attempt, response)
    /\ pc' = "wait"
    /\ UNCHANGED <<message, destination, config, hop, attempt, response,
                   executed, hopErr, responseMessage,
                   responseAdditionalHeaders, dispatchExecutionInfo, requests,
                   clients, messagesToFinish, finished, hops>>

NextBackoff == Backoff

SpecBackoff == InitBackoff /\ [][NextBackoff]_vars

----------------------------------------------------------------------------
\* The client cache under concurrent callers: getClientForAddressable,
\* AddOrUpdateAddressableHandler, DeleteAddressableHandler and
\* ConfigureConnectionArgs, each between clientsMutex.Lock() and the deferred
\* clientsMutex.Unlock().  A call that waits for the mutex has changed
\* nothing yet, so a call starts when it takes the mutex.

\* Calls of cache functions made in one run.
MaxCalls == 3

\* ConnectionArgs: MaxIdleConns and MaxIdleConnsPerHost.
ConnectionArgs(maxIdleConns, maxIdleConnsPerHost) ==
    [MaxIdleConns |-> maxIdleConns, MaxIdleConnsPerHost |-> maxIdleConnsPerHost]

\* The arguments of ConfigureConnectionArgs: nil or a tuning.
ConnectionArgsInputs == {Nil, ConnectionArgs(1, 1), ConnectionArgs(2, 1)}

\* The addressables the cache functions are called with: two share a URL
\* and differ in CA certificates, one has CA certificates that do not parse.
CacheAddressables ==
    {Addressable(URLOf("http", "dest", "/"), Nil),
     Addressable(URLOf("http", "dest", "/"), CACerts("ca1")),
     Addressable(URLOf("http", "dest", "/"), CACerts("garbage")),
     Addressable(URLOf("http", "reply", "/"), Nil)}

\* A call in progress: the function, its argument and what it has read.
Call(op, arg, ok, client) == [op |-> op, arg |-> arg, ok |-> ok, client |-> client]

\* A finished call: the function, the argument, the key, the client
\* returned or installed, the error returned or printed, whether a client
\* was created, the clients whose idle connections were closed, and the
\* cache and the connectionArgs the call found.
LogEntry(op, arg, clientKey, client, err, created, closed) ==
    [op |-> op, arg |-> arg, clientKey |-> clientKey, before |-> clients,
     connectionArgs |-> connectionArgs,
     client |-> client, err |-> err, created |-> created, closed |-> closed]

CallsInProgress == {g \in Goroutines : calls[g] # Nil}

\* The clients created so far.
ClientsCreated == {log[i].client : i \in {j \in DOMAIN log : log[j].created}}

\* createNewClient for a cache that tells clients apart: the new client is
\* a new object (id), built with the CA certificates of the addressable and
\* the connectionArgs in force; its Timeout is the zero value.
newClient(addressable, args, id) ==
    LET new == createNewClient(addressable)
    IN  IF new.err # Nil THEN new
        ELSE [client |-> [id |-> id, CACerts |-> new.client.CACerts,
                          connectionArgs |-> args, Timeout |-> 0],
              err |-> Nil]

\* clients[clientKey] = client
MapSet(m, key, value) ==
    [k \in DOMAIN m \cup {key} |-> IF k = key THEN value ELSE m[k]]

\* A variant of MapDelete that deletes nothing.
MapDeleteNothing(m, key) == m

\* delete(clients, clientKey)
MapDelete(m, key) == [k \in DOMAIN m \ {key} |-> m[k]]

\* A variant of TryLock for a mutex that excludes nobody.
TryLockUnguarded(mutex) == TRUE

\* clientsMutex.Lock() goes on when the mutex is not locked.
TryLock(mutex) == ~mutex

\* A goroutine starts a call: it takes the mutex; getClientForAddressable
\* goes on to look the key up.
Lock(g, op, arg) ==
    /\ pc = "idle"
    /\ calls[g] = Nil
    /\ Len(log) + Cardinality(CallsInProgress) < MaxCalls
    /\ TryLock(clientsMutex)
    /\ clientsMutex' = TRUE
    /\ calls' = [calls EXCEPT ![g] =
                    IF op = "getClientForAddressable"
                    THEN LET clientKey == URLString(arg.URL)
                         IN  IF clientKey \in DOMAIN clients
                             THEN Call(op, arg, TRUE, clients[clientKey])
                             ELSE Call(op, arg, FALSE, Nil)
                    ELSE Call(op, arg, FALSE, Nil)]
    /\ UNCHANGED <<clients, connectionArgs, log>>
    /\ UNCHANGED dispatchVars
    /\ UNCHANGED runnerVars
    /\ UNCHANGED callVars

\* The end of every call: the deferred clientsMutex.Unlock().
Unlock(g, entry) ==
    /\ clientsMutex' = FALSE
    /\ calls' = [calls EXCEPT ![g] = Nil]
    /\ log' = Append(log, entry)

\* A variant of getClientForAddressableBody that does not store the client
\* it creates.
getClientForAddressableUncached(call, cache, args, id) ==
    LET new == newClient(call.arg, args, id)
    IN  IF call.ok THEN [client |-> call.client, err |-> Nil, clients |-> cache,
                         created |-> FALSE]
        ELSE [client |-> new.client, err |-> new.err, clients |-> cache,
              created |-> new.err = Nil]

\* getClientForAddressable after the lookup: the client found, or a new one
\* which is stored under the key, or the error of createNewClient.
getClientForAddressableBody(call, cache, args, id) ==
    LET clientKey == URLString(call.arg.URL)
        new == newClient(call.arg, args, id)
    IN  IF call.ok
        THEN [client |-> call.client, err |-> Nil, clients |-> cache,
              created |-> FALSE]
        ELSE IF new.err # Nil
        THEN [client |-> Nil,
              err |-> Error("failed to create new client for addressable: %w",
                            <<>>, <<new.err>>, 0),
              clients |-> cache, created |-> FALSE]
        ELSE [client |-> new.client, err |-> Nil,
              clients |-> MapSet(cache, clientKey, new.client),
              created |-> TRUE]

getClientForAddressableReturns(g) ==
    /\ pc = "idle"
    /\ calls[g] # Nil
    /\ calls[g].op = "getClientForAddressable"
    /\ LET got == getClientForAddressableBody(calls[g], clients, connectionArgs,
                                              Cardinality(ClientsCreated) + 1)
       IN  /\ clients' = got.clients
           /\ Unlock(g, LogEntry(calls[g].op, calls[g].arg,
                                 URLString(calls[g].arg.URL), got.client,
                                 got.err, got.created, {}))
    /\ UNCHANGED connectionArgs
    /\ UNCHANGED dispatchVars
    /\ UNCHANGED runnerVars
    /\ UNCHANGED callVars

\* A variant of AddOrUpdate that keeps an entry the cache already has.
AddIfAbsent(addressable, cache, args, id) ==
    LET clientKey == URLString(addressable.URL)
        new == newClient(addressable, args, id)
    IN  IF new.err # Nil \/ clientKey \in DOMAIN cache
        THEN [client |-> Nil, err |-> new.err, clients |-> cache, created |-> FALSE]
        ELSE [client |-> new.client, err |-> Nil,
              clients |-> MapSet(cache, clientKey, new.client), created |-> TRUE]

\* A variant of AddOrUpdate that drops the entry of the key when no client
\* can be made.
AddOrUpdateDropsOnError(addressable, cache, args, id) ==
    LET clientKey == URLString(addressable.URL)
        new == newClient(addressable, args, id)
    IN  IF new.err # Nil
        THEN [client |-> Nil, err |-> new.err,
              clients |-> MapDelete(cache, clientKey), created |-> FALSE]
        ELSE [client |-> new.client, err |-> Nil,
              clients |-> MapSet(cache, clientKey, new.client), created |-> TRUE]

\* The body of AddOrUpdateAddressableHandler: a new client is stored under
\* the key; when createNewClient fails the error is printed and the cache
\* left alone.
AddOrUpdate(addressable, cache, args, id) ==
    LET clientKey == URLString(addressable.URL)
        new == newClient(addressable, args, id)
    IN  IF new.err # Nil
        THEN [client |-> Nil, err |-> new.err, clients |-> cache, created |-> FALSE]
        ELSE [client |-> new.client, err |-> Nil,
              clients |-> MapSet(cache, clientKey, new.client), created |-> TRUE]

AddOrUpdateAddressableHandler(g) ==
    /\ pc = "idle"
    /\ calls[g] # Nil
    /\ calls[g].op = "AddOrUpdateAddressableHandler"
    /\ LET put == AddOrUpdate(calls[g].arg, clients, connectionArgs,
                              Cardinality(ClientsCreated) + 1)
       IN  /\ clients' = put.clients
           /\ Unlock(g, LogEntry(calls[g].op, calls[g].arg,
                                 URLString(calls[g].arg.URL), put.client,
                                 put.err, put.created, {}))
    /\ UNCHANGED connectionArgs
    /\ UNCHANGED dispatchVars
    /\ UNCHANGED runnerVars
    /\ UNCHANGED callVars

DeleteAddressableHandler(g) ==
    /\ pc = "idle"
    /\ calls[g] # Nil
    /\ calls[g].op = "DeleteAddressableHandler"
    /\ clients' = MapDelete(clients, URLString(calls[g].arg.URL))
    /\ Unlock(g, LogEntry(calls[g].op, calls[g].arg,
                          URLString(calls[g].arg.URL), Nil, Nil, FALSE, {}))
    /\ UNCHANGED connectionArgs
    /\ UNCHANGED dispatchVars
    /\ UNCHANGED runnerVars
    /\ UNCHANGED callVars

\* The check of ConfigureConnectionArgs for the same config.
SameConnectionArgs(ca, current) ==
    /\ current # Nil
    /\ ca # Nil
    /\ ca.MaxIdleConns = current.MaxIdleConns
    /\ ca.MaxIdleConnsPerHost = current.MaxIdleConnsPerHost

\* A variant of ConfigureConnectionArgs that keeps the cached clients.
ConfigureConnectionArgsKeepsClients(g) ==
    /\ pc = "idle"
    /\ calls[g] # Nil
    /\ calls[g].op = "ConfigureConnectionArgs"
    /\ connectionArgs' = calls[g].arg
    /\ UNCHANGED clients
    /\ Unlock(g, LogEntry(calls[g].op, calls[g].arg, "", Nil, Nil, FALSE, {}))
    /\ UNCHANGED dispatchVars
    /\ UNCHANGED runnerVars
    /\ UNCHANGED callVars

\* ConfigureConnectionArgs: nothing for the same config; else the idle
\* connections of the cached clients are closed, the cache is replaced by
\* an empty one and the new ConnectionArgs are in force.
ConfigureConnectionArgs(g) ==
    /\ pc = "idle"
    /\ calls[g] # Nil
    /\ calls[g].op = "ConfigureConnectionArgs"
    /\ IF SameConnectionArgs(calls[g].arg, connectionArgs)
       THEN /\ UNCHANGED <<clients, connectionArgs>>
            /\ Unlock(g, LogEntry(calls[g].op, calls[g].arg, "", Nil, Nil,
                                  FALSE, {}))
       ELSE /\ clients' = [k \in {} |-> Nil]
            /\ connectionArgs' = calls[g].arg
            /\ Unlock(g, LogEntry(calls[g].op, calls[g].arg, "", Nil, Nil,
                                  FALSE, {clients[k] : k \in DOMAIN clients}))
    /\ UNCHANGED dispatchVars
    /\ UNCHANGED runnerVars
    /\ UNCHANGED callVars

NextClients ==
    \/ \E g \in Goroutines, addressable \in CacheAddressables :
          \/ Lock(g, "getClientForAddressable", addressable)
          \/ Lock(g, "AddOrUpdateAddressableHandler", addressable)
          \/ Lock(g, "DeleteAddressableHandler", addressable)
    \/ \E g \in Goroutines, ca \in ConnectionArgsInputs :
          Lock(g, "ConfigureConnectionArgs", ca)
    \/ \E g \in Goroutines : getClientForAddressableReturns(g)
    \/ \E g \in Goroutines : AddOrUpdateAddressableHandler(g)
    \/ \E g \in Goroutines : DeleteAddressableHandler(g)
    \/ \E g \in Goroutines : ConfigureConnectionArgs(g)

SpecClients == Init /\ [][NextClients]_vars

----------------------------------------------------------------------------
\* Concurrent sends: every goroutine runs the part of executeRequest that
\* obtains the client and sends with it (newClient and client.DoWithRetries
\* of the dispatcher, getConfiguredHttpClient and SendWithRetries of the
\* request-based sender).  calls[g] is the send goroutine g is in.

\* Sends made in one run.
MaxSends == 2

SendTargets ==
    {Addressable(URLOf("http", "dest", "/"), Nil),
     Addressable(URLOf("http", "reply", "/"), Nil)}

\* A RetryConfig with its RequestTimeout.
RetryConfigWithTimeout(retryMax, requestTimeout) ==
    [RetryMax |-> retryMax, CheckRetry |-> "ifFailure",
     RequestTimeout |-> requestTimeout]

\* The RetryConfig of a send and the timeout of its clientImpl (0: not
\* set; the client of the dispatcher has none).
SendTimeouts ==
    {[retryConfig |-> Nil, timeout |-> 0],
     [retryConfig |-> Nil, timeout |-> 3],
     [retryConfig |-> RetryConfigWithTimeout(MaxRetry, 0), timeout |-> 0],
     [retryConfig |-> RetryConfigWithTimeout(MaxRetry, 5), timeout |-> 3]}

\* A send in progress: where it is, its target, its timeouts, the lookup,
\* the pooled client it was given, whether that was created for it, the
\* client it sends with and the attempts made.
SendCall(at, target, timeouts, ok, found) ==
    [op |-> "executeRequest", at |-> at, arg |-> target, timeouts |-> timeouts,
     ok |-> ok, client |-> found, created |-> FALSE, used |-> Nil,
     attempts |-> 0]

\* A variant of ConfiguredClient that sets the timeouts on the pooled
\* client itself.
ConfiguredClientInPlace(pooled, cache, clientKey, timeouts) ==
    LET t == IF timeouts.retryConfig # Nil /\ timeouts.retryConfig.RequestTimeout # 0
             THEN timeouts.retryConfig.RequestTimeout
             ELSE IF timeouts.timeout > 0 THEN timeouts.timeout
             ELSE pooled.Timeout
    IN  [client |-> [pooled EXCEPT !.Timeout = t],
         clients |-> MapSet(cache, clientKey, [pooled EXCEPT !.Timeout = t])]

\* The client a send uses and the cache after it was prepared: a copy of
\* the pooled client (newClient, getConfiguredHttpClient) that gets the
\* timeout of the clientImpl when that is set, and in its place a client
\* with the same transport and the RequestTimeout of the RetryConfig when
\* that is not 0 (DoWithRetries, SendWithRetries).  The cache is not written.
ConfiguredClient(pooled, cache, clientKey, timeouts) ==
    LET clientCopy == IF timeouts.timeout > 0
                      THEN [pooled EXCEPT !.Timeout = timeouts.timeout]
                      ELSE pooled
    IN  [client |-> IF timeouts.retryConfig # Nil
                       /\ timeouts.retryConfig.RequestTimeout # 0
                    THEN [clientCopy EXCEPT
                              !.Timeout = timeouts.retryConfig.RequestTimeout]
                    ELSE clientCopy,
         clients |-> cache]

\* A finished send.
SendEntry(call) ==
    [op |-> call.op, arg |-> call.arg, clientKey |-> URLString(call.arg.URL),
     timeouts |-> call.timeouts, client |-> call.client,
     created |-> call.created, used |-> call.used, attempts |-> call.attempts]

\* newClient enters getClientForAddressable: it takes the mutex and looks
\* the key up.
newClientLock(g, target, timeouts) ==
    /\ pc = "idle"
    /\ calls[g] = Nil
    /\ Len(log) + Cardinality(CallsInProgress) < MaxSends
    /\ TryLock(clientsMutex)
    /\ clientsMutex' = TRUE
    /\ calls' = [calls EXCEPT ![g] =
                    LET clientKey == URLString(target.URL)
                    IN  IF clientKey \in DOMAIN clients
                        THEN SendCall("locked", target, timeouts, TRUE,
                                      clients[clientKey])
                        ELSE SendCall("locked", target, timeouts, FALSE, Nil)]
    /\ UNCHANGED <<clients, connectionArgs, log>>
    /\ UNCHANGED dispatchVars
    /\ UNCHANGED runnerVars
    /\ UNCHANGED callVars

\* A variant of newClientReturns that keeps the mutex for the send.
newClientReturnsLocked(g) ==
    /\ pc = "idle"
    /\ calls[g] # Nil
    /\ calls[g].op = "executeRequest"
    /\ calls[g].at = "locked"
    /\ LET got == getClientForAddressableBody(calls[g], clients, connectionArgs,
                                              Cardinality(DOMAIN clients) + 1)
           made == ConfiguredClient(got.client, got.clients,
                                    URLString(calls[g].arg.URL), calls[g].timeouts)
       IN  IF got.err # Nil
           THEN /\ calls' = [calls EXCEPT ![g] = Nil]
                /\ log' = Append(log, SendEntry(calls[g]))
                /\ UNCHANGED clients
           ELSE /\ clients' = made.clients
                /\ calls' = [calls EXCEPT ![g] =
                                [calls[g] EXCEPT !.at = "Do",
                                                 !.client = got.client,
                                                 !.created = got.created,
                                                 !.used = made.client,
                                                 !.attempts = 1]]
                /\ UNCHANGED log
    /\ UNCHANGED <<clientsMutex, connectionArgs>>
    /\ UNCHANGED dispatchVars
    /\ UNCHANGED runnerVars
    /\ UNCHANGED callVars

\* getClientForAddressable returns and releases the mutex; with its error
\* the send is over, else the send prepares its client and makes its first
\* attempt.
newClientReturns(g) ==
    /\ pc = "idle"
    /\ calls[g] # Nil
    /\ calls[g].op = "executeRequest"
    /\ calls[g].at = "locked"
    /\ LET got == getClientForAddressableBody(calls[g], clients, connectionArgs,
                                              Cardinality(DOMAIN clients) + 1)
           made == ConfiguredClient(got.client, got.clients,
                                    URLString(calls[g].arg.URL), calls[g].timeouts)
       IN  IF got.err # Nil
           THEN /\ calls' = [calls EXCEPT ![g] = Nil]
                /\ log' = Append(log, SendEntry(calls[g]))
                /\ UNCHANGED clients
           ELSE /\ clients' = made.clients
                /\ calls' = [calls EXCEPT ![g] =
                                [calls[g] EXCEPT !.at = "Do",
                                                 !.client = got.client,
                                                 !.created = got.created,
                                                 !.used = made.client,
                                                 !.attempts = 1]]
                /\ UNCHANGED log
    /\ clientsMutex' = FALSE
    /\ UNCHANGED connectionArgs
    /\ UNCHANGED dispatchVars
    /\ UNCHANGED runnerVars
    /\ UNCHANGED callVars

\* The attempt in flight is answered: with a failure that is retried the
\* send waits for the backoff, else executeRequest goes on and returns.
DoWithRetriesAnswered(g, failed) ==
    /\ pc = "idle"
    /\ calls[g] # Nil
    /\ calls[g].op = "executeRequest"
    /\ calls[g].at = "Do"
    /\ IF /\ failed
          /\ calls[g].timeouts.retryConfig # Nil
          /\ calls[g].timeouts.retryConfig.RetryMax - (calls[g].attempts - 1) > 0
       THEN /\ calls' = [calls EXCEPT ![g] = [calls[g] EXCEPT !.at = "Backoff"]]
            /\ UNCHANGED log
       ELSE /\ calls' = [calls EXCEPT ![g] = Nil]
            /\ log' = Append(log, SendEntry(calls[g]))
    /\ UNCHANGED <<clients, clientsMutex, connectionArgs>>
    /\ UNCHANGED dispatchVars
    /\ UNCHANGED runnerVars
    /\ UNCHANGED callVars

\* The backoff wait is over: the next attempt, with the same client.
DoWithRetriesRetries(g) ==
    /\ pc = "idle"
    /\ calls[g] # Nil
    /\ calls[g].op = "executeRequest"
    /\ calls[g].at = "Backoff"
    /\ calls' = [calls EXCEPT ![g] =
                    [calls[g] EXCEPT !.at = "Do", !.attempts = @ + 1]]
    /\ UNCHANGED <<clients, clientsMutex, connectionArgs, log>>
    /\ UNCHANGED dispatchVars
    /\ UNCHANGED runnerVars
    /\ UNCHANGED callVars

NextSends ==
    \/ \E g \in Goroutines, target \in SendTargets, timeouts \in SendTimeouts :
          newClientLock(g, target, timeouts)
    \/ \E g \in Goroutines : newClientReturns(g)
    \/ \E g \in Goroutines, failed \in BOOLEAN : DoWithRetriesAnswered(g, failed)
    \/ \E g \in Goroutines : DoWithRetriesRetries(g)

SpecSends == Init /\ [][NextSends]_vars

----------------------------------------------------------------------------
\* Properties of a dispatch call.  They are stated over what the servers
\* answered (requests, and the result recorded with every hop of hops), not
\* over the verdicts of the code.

\* The call has ended: send returned, or a run-time panic unwound it.
Ended == pc \in {"returned", "panic"}

Range(s) == {s[i] : i \in DOMAIN s}

\* Every executeRequest call so far, the one in progress included.
AllHops ==
    IF pc \in {"executeRequest", "Do", "response"}
    THEN Append(hops, HopEnd(hop, "running", attempt, Nil, Nil))
    ELSE hops

HopsOf(kind) == {i \in DOMAIN hops : hops[i].kind = kind}
RequestsTo(kind) == {i \in DOMAIN requests : requests[i].hop = kind}

\* The last attempt of hop h got a 2xx response.
AnswerOK(h) ==
    /\ h.outcome # "running"
    /\ h.attempts >= 1
    /\ h.result.err = Nil
    /\ h.result.resp.StatusCode >= 200
    /\ h.result.resp.StatusCode < 300

\* The last attempt of hop h ended in a transport error or a non-2xx response.
AnswerFailed(h) == h.outcome # "running" /\ h.attempts >= 1 /\ ~AnswerOK(h)

\* Hop h failed: no request could be sent, or its last attempt failed.
Failed(h) == h.outcome # "running" /\ (h.attempts = 0 \/ AnswerFailed(h))

\* The destination was sent to and the send is over.
DestinationEnded == Len(hops) >= 1 /\ hops[1].kind = "destination"

\* The destination answered 2xx with a response of the given encoding.
DestinationAnswered(encoding) ==
    /\ DestinationEnded
    /\ AnswerOK(hops[1])
    /\ hops[1].result.resp.encoding = encoding

\* The error that returns the failure of hop h directly.
DirectFailure(h) ==
    IF h.kind = "destination" THEN ErrDestination(h.target, h.executed.err)
    ELSE ErrReply(h.target, h.executed.err)

\* C1: a dispatch whose destination has no URL returns an error at once and
\* sends no request to any target, whatever reply target and dead-letter sink
\* are configured.
C1_NilDestinationFailsImmediately ==
    (pc \notin {"idle", "send"} /\ destination.URL = Nil) =>
        /\ pc = "returned"
        /\ ret.err # Nil
        /\ requests = <<>>
        /\ hops = <<>>

\* C2: when the send to the destination fails (transport error or non-2xx
\* response) and a dead-letter sink is configured, the original message is
\* sent to the dead-letter sink, and if that send succeeds the dispatch
\* returns no error.
C2_DeadLetterHandlesDestinationFailure ==
    (Ended /\ DestinationEnded /\ AnswerFailed(hops[1])
        /\ config.deadLetterSink # Nil) =>
        /\ \E i \in HopsOf("deadLetter") : hops[i].message = message
        /\ \A i \in HopsOf("deadLetter") :
              AnswerOK(hops[i]) => (pc = "returned" /\ ret.err = Nil)

\* C2 in the calls that return.
C2_InReturnedCalls == pc = "returned" => C2_DeadLetterHandlesDestinationFailure

\* C3: when the send to the destination fails and no dead-letter sink is
\* configured, the dispatch returns an error that names the destination URL
\* and no further request is sent.
C3_DestinationFailureReturned ==
    (Ended /\ DestinationEnded /\ Failed(hops[1])
        /\ config.deadLetterSink = Nil) =>
        /\ pc = "returned"
        /\ ret.err # Nil
        /\ URLString(destination.URL) \in Range(ret.err.urls)
        /\ Len(hops) = 1
        /\ RequestsTo("reply") = {}
        /\ RequestsTo("deadLetter") = {}

\* C3 in the calls that return.
C3_InReturnedCalls == pc = "returned" => C3_DestinationFailureReturned

\* C4: when a hop fails and the send to the dead-letter sink fails too, the
\* dispatch returns one error that names the failed target and the
\* dead-letter sink, and that differs from the error of the hop failing with
\* no dead-letter sink.
C4_CombinedError ==
    Ended =>
        \A i \in HopsOf("deadLetter") :
            Failed(hops[i]) =>
                /\ pc = "returned"
                /\ ret.err # Nil
                /\ URLString(hops[i - 1].target.URL) \in Range(ret.err.urls)
                /\ URLString(hops[i].target.URL) \in Range(ret.err.urls)
                /\ ret.err.fmt # DirectFailure(hops[i - 1]).fmt

\* C4 in the calls that return.
C4_InReturnedCalls == pc = "returned" => C4_CombinedError

\* Hop i of hops was forwarded: the call of executeRequest that followed it
\* is the one for the dead-letter sink.
Forwarded(i) == i < Len(AllHops) /\ AllHops[i + 1].kind = "deadLetter"

\* The failure of hop i of hops was returned directly to the caller.
ReturnedDirectly(i) == pc = "returned" /\ ret.err = DirectFailure(hops[i])

\* C5: for every failed hop at most one of the two happens: the message is
\* forwarded to the dead-letter sink, or the failure of the hop is returned
\* to the caller as the error of the dispatch.
C5_ForwardedOrReturned ==
    \A i \in DOMAIN hops :
        Failed(hops[i]) => ~(Forwarded(i) /\ ReturnedDirectly(i))

\* A call returned the combined error: its destination failed, the message
\* was forwarded and the dead-letter send failed too.
C5_Witness ==
    /\ pc = "returned"
    /\ Len(hops) = 2
    /\ Failed(hops[1])
    /\ Forwarded(1)
    /\ AnswerFailed(hops[2])
    /\ ret.err # Nil

\* The hop whose failure the dead-letter hop follows: the last hop that is
\* not the dead-letter hop.
FailedHopOfDeadLetter ==
    hops[CHOOSE i \in DOMAIN hops :
             /\ hops[i].kind # "deadLetter"
             /\ \A j \in DOMAIN hops : j > i => hops[j].kind = "deadLetter"]

\* The base64 text of body, cut at the length the extension may have.
EncodedBody(body) ==
    SubSeq(StdEncode(body), 1,
           Min(Len(StdEncode(body)), KnativeErrorDataExtensionMaxLength))

\* The extension attributes that describe the failure of hop h as it is:
\* the URL of its target, the status code and the encoded body of its
\* DispatchInfo.
FailureAttributes(h) ==
    KnativeErrorTransformers(URLString(h.target.URL),
                             h.executed.info.ResponseCode,
                             EncodedBody(h.executed.info.ResponseBody))

\* The extension attributes of a failure the broker filter relayed: the
\* destination and the body of the error context in the response body, with
\* the status code of the filter's own response; none at all (Nil) when the
\* body holds no error context.
RelayedFailureAttributes(h) ==
    LET errExtensionInfo == jsonUnmarshalErrExtensionInfo(h.executed.info.ResponseBody)
    IN  IF errExtensionInfo.err THEN Nil
        ELSE KnativeErrorTransformers(
                 URLString(sanitizeURL(errExtensionInfo.ErrDestination)),
                 h.executed.info.ResponseCode,
                 EncodedBody(errExtensionInfo.ErrResponseBody))

\* C6 as stated: whenever a message is forwarded to the dead-letter sink the
\* forwarded event is the original event with the extension attributes of
\* the failing target's URL, the status code and the encoded response body,
\* for every failing target and every body.
C6_AttributesOfFailingTarget ==
    \A i \in RequestsTo("deadLetter") :
        /\ requests[i].event.id = message.id
        /\ requests[i].event.encoding = message.encoding
        /\ requests[i].event.ext = FailureAttributes(FailedHopOfDeadLetter)

\* C6, amended: the forwarded event is the original event; for a failing
\* target other than the broker filter it carries the attributes of that
\* target's failure, for the broker filter it carries the attributes of the
\* relayed failure, and no attribute when the filter's response body holds
\* no error context.
C6_AttributesOfTrueFailure ==
    \A i \in RequestsTo("deadLetter") :
        /\ requests[i].event.id = message.id
        /\ requests[i].event.encoding = message.encoding
        /\ requests[i].event.ext =
               IF FailedHopOfDeadLetter.target.URL.Host = BrokerFilterHost
               THEN RelayedFailureAttributes(FailedHopOfDeadLetter)
               ELSE FailureAttributes(FailedHopOfDeadLetter)

\* A dead letter was sent for a failure the broker filter relayed, and it
\* names the relayed destination.
C6_Witness ==
    \E i \in RequestsTo("deadLetter") :
        /\ FailedHopOfDeadLetter.target.URL.Host = BrokerFilterHost
        /\ requests[i].event.ext # Nil
        /\ requests[i].event.ext.knativeerrordest = URLString(OrigURL)

\* C7: when the destination answers 2xx with a body that is no event, the
\* dispatch succeeds, its DispatchInfo has the status of the response and an
\* empty body, and no request goes to the reply target.
C7_NonEventResponseCompletes ==
    (Ended /\ DestinationAnswered("unknown")) =>
        /\ pc = "returned"
        /\ ret.err = Nil
        /\ ret.info.ResponseCode = hops[1].result.resp.StatusCode
        /\ ret.info.ResponseBody = EmptyBody
        /\ HopsOf("reply") = {}
        /\ RequestsTo("reply") = {}

\* C7 in the calls that return.
C7_InReturnedCalls == pc = "returned" => C7_NonEventResponseCompletes

\* C8: when the destination succeeds with an event in its response, then
\* with a reply target exactly one send of that event is made to it, and
\* without one the event is discarded and the dispatch succeeds with no
\* further request.
C8_ResponseEventForwardedOnce ==
    (Ended /\ DestinationAnswered("event")) =>
        IF config.reply # Nil
        THEN /\ Cardinality(HopsOf("reply")) = 1
             /\ \A i \in HopsOf("reply") :
                    /\ hops[i].message = ResponseMessage("destination", hops[1].result.resp)
                    /\ hops[i].target = config.reply
        ELSE /\ pc = "returned"
             /\ ret.err = Nil
             /\ Len(hops) = 1
             /\ RequestsTo("reply") = {}
             /\ RequestsTo("deadLetter") = {}
             /\ "destination-response" \in Range(finished)

\* C8 in the calls that return.
C8_InReturnedCalls == pc = "returned" => C8_ResponseEventForwardedOnce

\* C9: when the destination succeeds with an event, the reply target fails
\* and no dead-letter sink is configured, the dispatch returns the error of
\* the reply, which names the reply target.
C9_ReplyFailureReturned ==
    (Ended /\ DestinationAnswered("event") /\ config.deadLetterSink = Nil) =>
        \A i \in HopsOf("reply") :
            Failed(hops[i]) =>
                /\ pc = "returned"
                /\ ret.err # Nil
                /\ ret.err.fmt = ErrReply(config.reply, Nil).fmt
                /\ ret.err.fmt # ErrDestination(destination, Nil).fmt
                /\ URLString(config.reply.URL) \in Range(ret.err.urls)

\* C9 in the calls that return.
C9_InReturnedCalls == pc = "returned" => C9_ReplyFailureReturned

MessagesInPlay ==
    {message.id} \cup
        {hops[i].executed.message.id :
            i \in {j \in DOMAIN hops : /\ hops[j].executed # Nil
                                       /\ hops[j].executed.message # Nil}}

\* How often the message of the given id was finished.
TimesFinished(id) == Cardinality({k \in DOMAIN finished : finished[k] = id})

\* C11: when the dispatch has ended, every message of the call (the original
\* message and the responses of the destination, the reply target and the
\* dead-letter sink) has been finished exactly once, and nothing else was.
C11_FinishedExactlyOnce ==
    Ended =>
        /\ \A id \in MessagesInPlay : TimesFinished(id) = 1
        /\ Range(finished) \subseteq MessagesInPlay

\* A call returned after three messages were in play: the original message,
\* the response of the destination and the response of the dead-letter sink.
C11_Witness ==
    /\ pc = "returned"
    /\ Cardinality(MessagesInPlay) = 3
    /\ Len(finished) = 3

\* C12: every request sent to the destination carries Prefer: reply, with
\* and without a reply target and whatever headers the caller gave.
C12_PreferReply ==
    \A i \in RequestsTo("destination") : requests[i].header.Prefer = "reply"

\* The destination was sent to in a call without a reply target whose caller
\* gave another Prefer header.
C12_Witness ==
    /\ RequestsTo("destination") # {}
    /\ config.reply = Nil
    /\ config.additionalHeaders # Nil
    /\ config.additionalHeaders.Prefer = "return=minimal"

\* The value of the namespace header among the caller's headers ("": none).
CallerNamespace ==
    IF config = Nil THEN "" ELSE HeaderGet(config.additionalHeaders, "Kn")

\* C13 as stated: if the caller's headers carry the namespace header, the
\* response headers of the DispatchInfo the dispatch returns carry its value,
\* on every return path.
C13_NamespaceInDispatchInfo ==
    (pc = "returned" /\ CallerNamespace # "") =>
        /\ ret.info # Nil
        /\ ret.info.ResponseHeader # Nil
        /\ ret.info.ResponseHeader.Kn = CallerNamespace

\* C13, amended: if the caller's headers carry the namespace header, every
\* request of the call carries its value (the destination and a dead letter
\* after it with the caller's headers, the reply and a dead letter after it
\* with the headers of the destination's response), and the DispatchInfo
\* returned carries it when the call ends with the successful send to the
\* destination, nothing being forwarded.
C13_NamespaceOnRequests ==
    CallerNamespace # "" =>
        /\ \A i \in DOMAIN requests : requests[i].header.Kn = CallerNamespace
        /\ (pc = "returned" /\ Len(hops) = 1 /\ AnswerOK(hops[1])) =>
               ret.info.ResponseHeader.Kn = CallerNamespace

\* A call whose caller gave the namespace header forwarded the response of
\* the destination to the reply target and returned.
C13_Witness ==
    /\ pc = "returned"
    /\ CallerNamespace = "ns1"
    /\ RequestsTo("reply") # {}
    /\ \A i \in RequestsTo("reply") : requests[i].header.Kn = "ns1"
    /\ ret.info.ResponseHeader.Kn = ""

\* C14: without a RetryConfig a hop that sends makes exactly one attempt,
\* whatever the response or the error.
C14_OneAttemptWithoutRetryConfig ==
    (config # Nil /\ config.retryConfig = Nil) =>
        /\ attempt <= 1
        /\ \A i \in DOMAIN hops :
               hops[i].result # Nil =>
                   /\ hops[i].attempts = 1
                   /\ Cardinality(RequestsTo(hops[i].kind)) = 1
        /\ \A kind \in {"destination", "reply", "deadLetter"} :
               Cardinality(RequestsTo(kind)) <= 1

\* A call without a RetryConfig ended after its destination and its
\* dead-letter sink each failed in their one attempt.
C14_Witness ==
    /\ pc = "returned"
    /\ config.retryConfig = Nil
    /\ Len(hops) = 2
    /\ AnswerFailed(hops[1])
    /\ AnswerFailed(hops[2])
    /\ Len(requests) = 2

\* C15: with a RetryConfig of RetryMax = N whose predicate retries the
\* failure, a destination that fails on every attempt gets exactly N + 1
\* attempts, after which, without a dead-letter sink, the dispatch returns an
\* error that names the destination.  (With this predicate an attempt is
\* retried only if it failed, so a failed last attempt means all failed.)
C15_RetryMaxPlusOneAttempts ==
    (Ended /\ DestinationEnded /\ AnswerFailed(hops[1])
        /\ config.retryConfig # Nil
        /\ config.retryConfig.CheckRetry = "ifFailure") =>
        /\ hops[1].attempts = config.retryConfig.RetryMax + 1
        /\ Cardinality(RequestsTo("destination")) = config.retryConfig.RetryMax + 1
        /\ config.deadLetterSink = Nil =>
               /\ pc = "returned"
               /\ ret.err # Nil
               /\ URLString(destination.URL) \in Range(ret.err.urls)

\* C15 in the calls that return.
C15_InReturnedCalls == pc = "returned" => C15_RetryMaxPlusOneAttempts

----------------------------------------------------------------------------
\* Properties of the backoff function.  They are stated over what the
\* server put in Retry-After, not over what the code parsed.

\* The delay the server asked for in Retry-After: the seconds given, the
\* time until the date given, none without a header or with another text.
RequestedDelay(resp) ==
    IF resp = Nil THEN 0
    ELSE CASE resp.retryAfter.kind \in {"seconds", "plusSeconds"} ->
                  resp.retryAfter.n * Second
           [] resp.retryAfter.kind = "date" -> resp.retryAfter.n * Second - Now
           [] OTHER -> 0

Larger(a, b) == IF a > b THEN a ELSE b
Smaller(a, b) == IF a < b THEN a ELSE b

\* The response is a 429 or a 503.
AsksToRetryLater(resp) ==
    resp # Nil /\ resp.StatusCode \in {StatusTooManyRequests, StatusServiceUnavailable}

\* Retry-After support is enabled: a positive ceiling.
RetryAfterEnabled(cfg) ==
    cfg.RetryAfterMaxDuration # Nil /\ cfg.RetryAfterMaxDuration.duration > 0

\* C16: the wait before a retry is the larger of the configured backoff and
\* d, where d is the requested Retry-After delay cut to the ceiling for a
\* 429 or 503 under a positive ceiling (a delay below the ceiling is kept
\* as it is), and 0 for any other status or without a response.
C16_WaitIsLargerOfBackoffAndRetryAfter ==
    pc = "wait" =>
        ret = Larger(config.Backoff[attempt],
                     IF AsksToRetryLater(response) /\ RetryAfterEnabled(config)
                     THEN Smaller(RequestedDelay(response),
                                  config.RetryAfterMaxDuration.duration)
                     ELSE 0)

C16_Witness ==
    /\ pc = "wait"
    /\ response # Nil
    /\ response.StatusCode = StatusTooManyRequests
    /\ response.retryAfter = RetryAfter("seconds", 3)
    /\ config.RetryAfterMaxDuration = DurationPtr(2 * Second)
    /\ config.Backoff[attempt] = Second
    /\ ret = 2 * Second

\* C17: with RetryAfterMaxDuration nil or 0 the wait is the configured
\* backoff alone, whatever the response and its Retry-After header.
C17_RetryAfterIgnoredWithoutCeiling ==
    (pc = "wait" /\ (config.RetryAfterMaxDuration = Nil
                        \/ config.RetryAfterMaxDuration = DurationPtr(0))) =>
        ret = config.Backoff[attempt]

C17_Witness ==
    /\ pc = "wait"
    /\ config.RetryAfterMaxDuration = DurationPtr(0)
    /\ response # Nil
    /\ response.StatusCode = StatusServiceUnavailable
    /\ response.retryAfter = RetryAfter("seconds", 3)
    /\ config.Backoff[attempt] = Second
    /\ ret = Second

\* C18, as stated: the wait is never shorter than the delay requested in
\* Retry-After on a 429 or 503 when Retry-After support is enabled, and
\* never shorter than the configured backoff.
C18_WaitAtLeastRequestedDelay ==
    pc = "wait" =>
        /\ ret >= config.Backoff[attempt]
        /\ (AsksToRetryLater(response) /\ RetryAfterEnabled(config)) =>
               ret >= RequestedDelay(response)

\* C18, amended: the wait is never shorter than the requested delay or the
\* ceiling, whichever is smaller, and never shorter than the configured
\* backoff.
C18_WaitAtLeastRequestedDelayUpToCeiling ==
    pc = "wait" =>
        /\ ret >= config.Backoff[attempt]
        /\ (AsksToRetryLater(response) /\ RetryAfterEnabled(config)) =>
               ret >= Smaller(RequestedDelay(response),
                              config.RetryAfterMaxDuration.duration)

C18_Witness ==
    /\ pc = "wait"
    /\ response # Nil
    /\ response.StatusCode = StatusServiceUnavailable
    /\ response.retryAfter = RetryAfter("date", 3)
    /\ config.RetryAfterMaxDuration = DurationPtr(2 * Second)
    /\ config.Backoff[attempt] = 0
    /\ ret = 3 * Second - Now

----------------------------------------------------------------------------
\* Properties of the client cache, stated over the log of finished calls.

Gets == {i \in DOMAIN log : log[i].op = "getClientForAddressable"}
Upserts == {i \in DOMAIN log : log[i].op = "AddOrUpdateAddressableHandler"}

\* Calls i < j with no upsert, invalidate or reconfigure between them.
NoWriteBetween(i, j) ==
    \A k \in (i + 1)..(j - 1) : log[k].op = "getClientForAddressable"

\* The CA certificates of the addressable can be made into a cert pool.
TrustMaterialParses(addressable) ==
    \/ addressable.CACerts = Nil
    \/ addressable.CACerts.pem = ""
    \/ AppendCertsFromPEM(addressable.CACerts.pem)

\* getClient calls for different URLs never return the same client.
DifferentURLsDifferentClients ==
    \A i, j \in Gets :
        (log[i].clientKey # log[j].clientKey /\ log[i].client # Nil) =>
            log[i].client # log[j].client

\* C19, as stated: getClient calls for the same URL string with no upsert,
\* invalidate or reconfigure in between all return one and the same client,
\* the only one created and the one that is cached; calls for different
\* URLs never return the same client.
C19_OneClientPerURL ==
    /\ \A i, j \in Gets :
           (i < j /\ log[i].clientKey = log[j].clientKey /\ NoWriteBetween(i, j)) =>
               /\ log[i].client # Nil
               /\ log[j].client = log[i].client
               /\ ~log[j].created
               /\ (\A k \in j..Len(log) : k \in Gets) =>
                      /\ log[i].clientKey \in DOMAIN clients
                      /\ clients[log[i].clientKey] = log[i].client
    /\ DifferentURLsDifferentClients

\* C19, amended: the same for the calls that follow a call which returned a
\* client; a call that finds no client cached and cannot create one returns
\* an error and leaves the creation to a later call.
C19_OneClientPerURLOnceCreated ==
    /\ \A i, j \in Gets :
           (i < j /\ log[i].clientKey = log[j].clientKey /\ NoWriteBetween(i, j)
               /\ log[i].err = Nil) =>
               /\ log[i].client # Nil
               /\ log[j].err = Nil
               /\ log[j].client = log[i].client
               /\ ~log[j].created
               /\ (\A k \in j..Len(log) : k \in Gets) =>
                      /\ log[i].clientKey \in DOMAIN clients
                      /\ clients[log[i].clientKey] = log[i].client
    /\ \A i \in Gets :
           log[i].err # Nil =>
               /\ log[i].client = Nil
               /\ ~log[i].created
               /\ ~TrustMaterialParses(log[i].arg)
    /\ DifferentURLsDifferentClients

C19_Witness ==
    /\ Len(log) = 3
    /\ Gets = {1, 2, 3}
    /\ log[1].clientKey = log[2].clientKey
    /\ log[3].clientKey # log[1].clientKey
    /\ log[1].arg # log[2].arg
    /\ log[1].created /\ ~log[2].created /\ log[3].created
    /\ log[2].client = log[1].client
    /\ log[3].client # log[1].client
    /\ Cardinality(DOMAIN clients) = 2

\* What C20 says of the upsert that is call i of the log.
UpsertReplaces(i) ==
    /\ log[i].created
    /\ log[i].err = Nil
    /\ log[i].client.CACerts = log[i].arg.CACerts
    /\ \A k \in 1..(i - 1) : log[k].client # log[i].client
    /\ i = Len(log) =>
           /\ log[i].clientKey \in DOMAIN clients
           /\ clients[log[i].clientKey] = log[i].client
    /\ (i + 1 \in Gets /\ log[i + 1].clientKey = log[i].clientKey) =>
           /\ log[i + 1].client = log[i].client
           /\ ~log[i + 1].created

\* C20, as stated: every upsert(a) puts a newly created client, built from
\* the trust material of a, in the place of the entry of a's URL, the next
\* getClient for the URL returns that client and creates nothing; two
\* upserts in a row both do so and leave the one entry of the second.
C20_UpsertReplacesEntry == \A i \in Upserts : UpsertReplaces(i)

\* C20, amended: the same for an upsert(a) whose trust material parses.
C20_UpsertReplacesEntryWhenCreated ==
    \A i \in Upserts : TrustMaterialParses(log[i].arg) => UpsertReplaces(i)

C20_Witness ==
    /\ Len(log) = 3
    /\ Upserts = {1, 2}
    /\ log[1].arg = log[2].arg
    /\ log[1].arg.CACerts = CACerts("ca1")
    /\ log[1].created /\ log[2].created
    /\ log[1].client # log[2].client
    /\ 3 \in Gets
    /\ log[3].clientKey = log[2].clientKey
    /\ log[3].client = log[2].client
    /\ ~log[3].created
    /\ DOMAIN clients = {log[2].clientKey}
    /\ clients[log[2].clientKey] = log[2].client

\* The cache as call i of the log left it.
CacheAfter(i) == IF i = Len(log) THEN clients ELSE log[i + 1].before

Deletes == {i \in DOMAIN log : log[i].op = "DeleteAddressableHandler"}

\* Call j is the first call after call i that has the key of call i.
NextWithKey(i, j) ==
    /\ i < j
    /\ log[j].clientKey = log[i].clientKey
    /\ \A k \in (i + 1)..(j - 1) : log[k].clientKey # log[i].clientKey

\* The invalidate that is call i removes the entry of its key, leaves the
\* others as they were, and changes nothing when the key has no entry.
DeleteRemovesOnlyItsEntry(i) ==
    /\ DOMAIN CacheAfter(i) = DOMAIN log[i].before \ {log[i].clientKey}
    /\ \A k \in DOMAIN CacheAfter(i) : CacheAfter(i)[k] = log[i].before[k]
    /\ log[i].clientKey \notin DOMAIN log[i].before =>
           CacheAfter(i) = log[i].before

\* Call j creates a client nobody had before, from its own addressable.
CreatesFreshClient(j) ==
    /\ log[j].created
    /\ log[j].err = Nil
    /\ log[j].client.CACerts = log[j].arg.CACerts
    /\ \A k \in 1..(j - 1) : log[k].client # log[j].client
    /\ \A k \in 1..j : \A key \in DOMAIN log[k].before :
           log[k].before[key] # log[j].client

\* C21, as stated: invalidate(a) removes the entry of a's URL and leaves
\* every other entry unchanged, a second invalidate(a) changes nothing, and
\* the next getClient for the URL creates a fresh client from the trust
\* material of the addressable of that call.
C21_InvalidateRemovesEntry ==
    \A i \in Deletes :
        /\ DeleteRemovesOnlyItsEntry(i)
        /\ \A j \in Gets : NextWithKey(i, j) => CreatesFreshClient(j)

\* C21, amended: the next getClient creates the fresh client when the trust
\* material of its addressable parses, and else returns an error and
\* caches nothing.
C21_InvalidateRemovesEntryThenCreated ==
    \A i \in Deletes :
        /\ DeleteRemovesOnlyItsEntry(i)
        /\ \A j \in Gets :
               NextWithKey(i, j) =>
                   IF TrustMaterialParses(log[j].arg)
                   THEN CreatesFreshClient(j)
                   ELSE /\ log[j].err # Nil
                        /\ log[j].client = Nil
                        /\ CacheAfter(j) = log[j].before

C21_Witness ==
    /\ Len(log) = 3
    /\ 1 \in Gets /\ log[1].created
    /\ log[1].arg.CACerts = Nil
    /\ Deletes = {2}
    /\ log[2].clientKey = log[1].clientKey
    /\ 3 \in Gets /\ log[3].clientKey = log[1].clientKey
    /\ log[3].arg.CACerts = CACerts("ca1")
    /\ log[3].created
    /\ log[3].client.CACerts = CACerts("ca1")
    /\ log[3].client # log[1].client

Configures == {i \in DOMAIN log : log[i].op = "ConfigureConnectionArgs"}

\* Call i changed neither the cache nor the connections of a client.
IsNoOp(i) == CacheAfter(i) = log[i].before /\ log[i].closed = {}

\* C22: reconfigure with tuning identical to the tuning in force is a
\* no-op: the cache keeps the same clients and no idle connections are
\* closed; so it is when both are nil.
C22_SameTuningIsNoOp ==
    \A i \in Configures : log[i].arg = log[i].connectionArgs => IsNoOp(i)

\* C22 for tunings that are not nil.
C22_SameTuningNotNilIsNoOp ==
    \A i \in Configures :
        (log[i].arg = log[i].connectionArgs /\ log[i].arg # Nil) => IsNoOp(i)

\* A reconfigure from nil to nil that found a client in the cache, and one
\* with the tuning in force that found one.
C22_NilTuningClearsCache ==
    \E i \in Configures :
        /\ log[i].arg = Nil /\ log[i].connectionArgs = Nil
        /\ log[i].before # CacheAfter(i)
        /\ log[i].closed # {}

C22_SameTuningKept ==
    \E i \in Configures :
        /\ log[i].arg # Nil /\ log[i].arg = log[i].connectionArgs
        /\ DOMAIN log[i].before # {}
        /\ IsNoOp(i)

\* The reconfigures whose tuning differs from the tuning in force.
Reconfigures == {i \in Configures : log[i].arg # log[i].connectionArgs}

\* C23: after a reconfigure with tuning that differs from the tuning in
\* force the cache is empty, and every client that getClient returns or
\* upsert installs after it (and before the next such reconfigure) is built
\* with the new tuning; in every state every cached client is built with
\* the tuning in force.
C23_ClientsBuiltWithTuningInForce ==
    /\ \A i \in Reconfigures :
           /\ DOMAIN CacheAfter(i) = {}
           /\ \A j \in Gets \cup Upserts :
                  (i < j /\ log[j].client # Nil
                      /\ \A k \in (i + 1)..(j - 1) : k \notin Reconfigures) =>
                      log[j].client.connectionArgs = log[i].arg
    /\ \A key \in DOMAIN clients : clients[key].connectionArgs = connectionArgs

C23_Witness ==
    /\ Len(log) = 3
    /\ 1 \in Gets /\ log[1].created
    /\ log[1].client.connectionArgs = Nil
    /\ Reconfigures = {2}
    /\ log[2].arg = ConnectionArgs(2, 1)
    /\ log[2].closed = {log[1].client}
    /\ 3 \in Gets /\ log[3].clientKey = log[1].clientKey
    /\ log[3].created
    /\ log[3].client.connectionArgs = ConnectionArgs(2, 1)
    /\ connectionArgs = ConnectionArgs(2, 1)

\* The calls that stored a client under the key: a getClient that created
\* one, an upsert that created one.
Writers(key) ==
    {i \in Gets \cup Upserts : log[i].clientKey = key /\ log[i].created}

\* The last of them, when no invalidate of the key and no reconfigure came
\* after it.
IsLastWriter(i, key) ==
    /\ i \in Writers(key)
    /\ \A k \in (i + 1)..Len(log) :
           /\ k \notin Writers(key)
           /\ k \notin Configures
           /\ ~(k \in Deletes /\ log[k].clientKey = key)

\* C24: whichever addressables of one URL the getClient and upsert calls
\* were made with, and in whatever order, the cache holds one entry for
\* the URL, the client that the most recent writer built from its trust
\* material; every getClient after it returns that client.
C24_LastWriterWins ==
    \A i \in DOMAIN log :
        IsLastWriter(i, log[i].clientKey) =>
            /\ log[i].clientKey \in DOMAIN clients
            /\ clients[log[i].clientKey] = log[i].client
            /\ clients[log[i].clientKey].CACerts = log[i].arg.CACerts
            /\ \A j \in Gets :
                   (i < j /\ log[j].clientKey = log[i].clientKey) =>
                       log[j].client = log[i].client

C24_Witness ==
    /\ Len(log) = 3
    /\ 1 \in Gets /\ log[1].created /\ log[1].arg.CACerts = Nil
    /\ 2 \in Upserts /\ log[2].created
    /\ log[2].clientKey = log[1].clientKey
    /\ log[2].arg.CACerts = CACerts("ca1")
    /\ 3 \in Gets /\ log[3].arg = log[1].arg
    /\ log[3].client = log[2].client
    /\ DOMAIN clients = {log[1].clientKey}
    /\ clients[log[1].clientKey].CACerts = CACerts("ca1")

----------------------------------------------------------------------------
\* Properties of the hops of a dispatch call and the client cache.

HopKey(i) == URLString(hops[i].target.URL)

\* The hop made no HTTP attempt and failed with an error.
FailedWithoutAttempt(i) ==
    /\ hops[i].outcome = "failed"
    /\ hops[i].attempts = 0
    /\ hops[i].result = Nil
    /\ hops[i].executed.err # Nil
    /\ RequestsTo(hops[i].kind) = {}

\* An earlier hop of the call left a client for the URL of hop i in the
\* cache (a hop that reached client.Do had obtained one).
ClientCachedBefore(i) ==
    \E j \in 1..(i - 1) : HopKey(j) = HopKey(i) /\ hops[j].attempts >= 1

\* C25, as stated: a hop to a target whose CA certificates cannot be parsed
\* fails without any HTTP attempt, and nothing is in the cache for its URL.
C25_UnparsableCertsFailTheHop ==
    \A i \in DOMAIN hops :
        ~TrustMaterialParses(hops[i].target) =>
            /\ FailedWithoutAttempt(i)
            /\ (i = Len(hops) /\ pc = "resume") => HopKey(i) \notin DOMAIN clients

\* C25, amended: so it is when no client is cached for the URL of the target.
C25_UnparsableCertsFailTheHopUnlessCached ==
    \A i \in DOMAIN hops :
        (~TrustMaterialParses(hops[i].target) /\ ~ClientCachedBefore(i)) =>
            /\ FailedWithoutAttempt(i)
            /\ (i = Len(hops) /\ pc = "resume") => HopKey(i) \notin DOMAIN clients

C25_Witness ==
    /\ pc = "returned"
    /\ Len(hops) = 2
    /\ hops[1].kind = "destination" /\ AnswerFailed(hops[1])
    /\ config.retryConfig # Nil /\ config.retryConfig.RetryMax = 1
    /\ hops[1].attempts = 2
    /\ hops[2].kind = "deadLetter"
    /\ hops[2].target.CACerts = CACerts("garbage")
    /\ HopKey(2) # HopKey(1)
    /\ FailedWithoutAttempt(2)
    /\ HopKey(2) \notin DOMAIN clients
    /\ ret.err # Nil

----------------------------------------------------------------------------
\* Properties of concurrent sends.

\* The sends that were given a client: those in progress past
\* getClientForAddressable, and those finished.
SendsWithClient ==
    {calls[g] : g \in {h \in Goroutines :
                          calls[h] # Nil /\ calls[h].op = "executeRequest"
                              /\ calls[h].at # "locked"}}
        \cup {SendEntry(log[i]) : i \in {j \in DOMAIN log :
                                            log[j].op = "executeRequest"
                                                /\ log[j].client # Nil}}

\* The Timeout a send asks for: the RequestTimeout of its RetryConfig when
\* that is not 0, else the timeout of its clientImpl (0: none).
TimeoutAskedFor(timeouts) ==
    IF timeouts.retryConfig # Nil /\ timeouts.retryConfig.RequestTimeout # 0
    THEN timeouts.retryConfig.RequestTimeout
    ELSE timeouts.timeout

\* C26: no send changes a pooled client.  The client cached for a URL is as
\* the send that created it received it (same Timeout, the zero value, and
\* same transport), whatever timeouts the sends since then had; each send
\* used a client with its own timeout; sends to the same URL, concurrent
\* or not, were given the same pooled client.
C26_PooledClientNeverMutated ==
    /\ \A key \in DOMAIN clients :
           /\ clients[key].Timeout = 0
           /\ \E send \in SendsWithClient :
                  /\ send.created
                  /\ URLString(send.arg.URL) = key
                  /\ send.client = clients[key]
                  /\ clients[key].CACerts = send.arg.CACerts
    /\ \A send \in SendsWithClient :
           /\ send.client = clients[URLString(send.arg.URL)]
           /\ send.used = [send.client EXCEPT
                               !.Timeout = TimeoutAskedFor(send.timeouts)]

C26_Witness ==
    /\ \A g \in Goroutines : calls[g] # Nil /\ calls[g].at = "Do"
    /\ calls["g1"].arg = calls["g2"].arg
    /\ calls["g1"].used.Timeout = 5
    /\ calls["g2"].used.Timeout = 3
    /\ calls["g1"].client = calls["g2"].client
    /\ calls["g1"].created /\ ~calls["g2"].created
    /\ clients[URLString(calls["g1"].arg.URL)].Timeout = 0

\* The goroutines inside getClientForAddressable.
HoldingMutex ==
    {g \in Goroutines : calls[g] # Nil /\ calls[g].at = "locked"}

\* The goroutines with a request in flight or in a backoff wait.
Sending ==
    {g \in Goroutines : calls[g] # Nil /\ calls[g].at \in {"Do", "Backoff"}}

\* C27: clientsMutex is locked only while a goroutine is inside
\* getClientForAddressable (lookup, construction, insert); a goroutine with
\* a request in flight or in a backoff wait does not hold it, so it is free
\* for another send whenever nobody is inside getClientForAddressable.
C27_MutexNotHeldWhileSending ==
    /\ clientsMutex <=> HoldingMutex # {}
    /\ Cardinality(HoldingMutex) <= 1

\* One send waits to retry while another, which started after it, has its
\* request in flight.
C27_Witness ==
    /\ calls["g1"] # Nil /\ calls["g1"].at = "Backoff"
    /\ calls["g2"] # Nil /\ calls["g2"].at = "Do"
    /\ calls["g1"].arg = calls["g2"].arg
    /\ calls["g1"].created /\ ~calls["g2"].created
    /\ ~clientsMutex

\* C28: every request of a dispatch call, whichever hop sent it, was sent
\* with the client that getClient returned for its URL from the pool.
C28_RequestsUsePooledClient ==
    \A i \in DOMAIN requests :
        /\ requests[i].client # Nil
        /\ requests[i].url \in DOMAIN clients
        /\ clients[requests[i].url] = requests[i].client

C28_Witness ==
    /\ pc = "returned"
    /\ RequestsTo("destination") # {}
    /\ RequestsTo("reply") # {}
    /\ RequestsTo("deadLetter") # {}
    /\ Cardinality({requests[i].url : i \in DOMAIN requests}) = 3
    /\ Cardinality(DOMAIN clients) = 3
    /\ Len(requests) > 3

----------------------------------------------------------------------------
\* The cronJobsRunner of the ping adapter (pkg/adapter/mtping/runner.go): a
\* cron whose entries send the event of a PingSource to its sink on every
\* tick.  Strings that the code converts are sequences: Data is the bytes of
\* the string, DataBase64 the base64 digits 0..63 with 64 for "=".

MaxSchedules == 1
MaxTicks == 2

\* ContextWithRetriesExponentialBackoff(ctx, 50*time.Millisecond, 5)
TickMaxTries == 5

\* base64.StdEncoding.DecodeString: groups of four digits make three bytes,
\* "=" stands only at the end of the last group; at the first group that is
\* no such group the bytes decoded before it are returned with an error.
StdDecode(text) ==
    LET groups == (Len(text) + 3) \div 4
        digit(k) == IF k <= Len(text) THEN text[k] ELSE 65
        pads(g) == IF digit(4 * g) # 64 THEN 0
                   ELSE IF digit(4 * g - 1) # 64 THEN 1 ELSE 2
        groupOK(g) ==
            /\ 4 * g <= Len(text)
            /\ digit(4 * g - 3) \in 0..63
            /\ digit(4 * g - 2) \in 0..63
            /\ digit(4 * g - 1) \in 0..64
            /\ digit(4 * g) \in 0..64
            /\ digit(4 * g - 1) = 64 => digit(4 * g) = 64
            /\ pads(g) > 0 => g = groups
        good == Cardinality({g \in 1..groups : \A h \in 1..g : groupOK(h)})
        val(g) ==
            (digit(4 * g - 3) % 64) * 262144 + (digit(4 * g - 2) % 64) * 4096
                + (digit(4 * g - 1) % 64) * 64 + (digit(4 * g) % 64)
        byte(i) ==
            LET g == ((i - 1) \div 3) + 1
                pos == (i - 1) % 3
            IN  IF pos = 0 THEN (val(g) \div 65536) % 256
                ELSE IF pos = 1 THEN (val(g) \div 256) % 256
                ELSE val(g) % 256
        n == IF good = 0 THEN 0 ELSE 3 * good - pads(good)
    IN  [err |-> good < groups, buf |-> [i \in 1..n |-> byte(i)]]

\* event.Extensions of an event without extensions, and
\* CloudEventOverrides.Extensions with one override.
NoExtensions == [k \in {} |-> ""]
OneExtension == [k \in {"ext"} |-> "val"]

SinkURI == URLOf("http", "sink", "/")

\* A PingSource: Spec.Schedule, Spec.ContentType, Spec.Data, Spec.DataBase64,
\* Spec.CloudEventOverrides (Nil or the extensions) and Status.SinkURI.
PingSource(name, schedule, contentType, data, dataBase64, overrides) ==
    [Namespace |-> "ns", Name |-> name, Schedule |-> schedule,
     ContentType |-> contentType, Data |-> data, DataBase64 |-> dataBase64,
     CloudEventOverrides |-> overrides, SinkURI |-> SinkURI]

\* Text data, base64 data, base64 data that does not decode, a content type
\* without data, and a schedule that cron does not parse.
PingSources ==
    { PingSource("text", "* * * * ?", "text/plain", ShortBody, <<>>, OneExtension),
      PingSource("b64", "* * * * ?", "text/plain", <<>>, StdEncode(ShortBody), Nil),
      PingSource("bad64", "* * * * ?", "text/plain", <<>>, <<65>>, Nil),
        PingSource("typed", "* * * * ?", "application/json", <<>>, <<>>, Nil),
      PingSource("never", "bad", "text/plain", ShortBody, <<>>, Nil) }

\* An event: type, source, id, extensions, datacontenttype and data (Nil when
\* the event has none).
Event(source, id, extensions, contentType, data) ==
    [Type |-> "dev.knative.sources.ping", Source |-> source, ID |-> id,
     Extensions |-> extensions, DataContentType |-> contentType, Data |-> data]

\* sourcesv1.PingSourceSource(namespace, name)
PingSourceSource(namespace, name) == <<namespace, name>>

\* makeEvent: a new event with the type and source of the PingSource and its
\* extension overrides; the data is the decoded DataBase64 (the error of the
\* decoding is dropped) or else the bytes of Data, and SetData, which sets the
\* content type, is called only when there is data.
makeEvent(source) ==
    LET extensions == IF source.CloudEventOverrides # Nil
                      THEN source.CloudEventOverrides ELSE NoExtensions
        data == IF source.DataBase64 # <<>>
                THEN StdDecode(source.DataBase64).buf
                ELSE IF source.Data # <<>> THEN source.Data ELSE Nil
        event == Event(PingSourceSource(source.Namespace, source.Name), <<>>,
                       extensions, "", Nil)
    IN  IF data # Nil
        THEN [event EXCEPT !.DataContentType = source.ContentType, !.Data = data]
        ELSE event

\* cron.AddFunc: a schedule that parses makes an entry under the next id.
ScheduleParses(schedule) == schedule # "bad"

\* An entry of the cron: the job is the closure of cronTick over the context
\* (its target) and the event.
Entry(source, target, event) == [source |-> source, target |-> target, event |-> event]

\* A run of a job, in the history: the id of the entry and the entry as the
\* run found it, the event and the header it sends with, the events handed to
\* the sink, one for every try, and where the run is ("Send", "finished" or
\* "panic").
Tick(id, entry, event, header, at) ==
    [id |-> id, entry |-> entry, event |-> event, header |-> header,
     sent |-> <<>>, at |-> at]

Ticks == DOMAIN ticks

\* The cron is made without a recovering job wrapper: the panic of a job ends
\* the process.
Crashed == \E i \in Ticks : ticks[i].at = "panic"

\* uuid.New().String(): an id that no earlier call returned.
NewUUID == <<"u">> \o Itoa(Len(ticks) + 1)

\* A variant of the first two statements of a tick that sets the id on the
\* event of the entry and sends that event.
SetIDInPlace(event, id) ==
    [template |-> [event EXCEPT !.ID = id], event |-> [event EXCEPT !.ID = id]]

\* event := event.Clone(); event.SetID(id): the event of the entry and the
\* event of the tick after the two statements.
SetIDOnClone(event, id) ==
    [template |-> event, event |-> [event EXCEPT !.ID = id]]

\* The answers of the token endpoint to the request of a tick: a token, a
\* body that is no JSON document, and no answer (httpClient.Do fails).
TokenAnswers == {"token", "undecodable", "failed"}

\* AddSchedule(source)
AddSchedule(source) ==
    /\ pc = "idle"
    /\ ~Crashed
    /\ added < MaxSchedules
    /\ IF ScheduleParses(source.Schedule)
       THEN /\ added' = added + 1
            /\ entries' = MapSet(entries, added + 1,
                                 Entry(source, source.SinkURI, makeEvent(source)))
       ELSE UNCHANGED <<added, entries>>
    /\ UNCHANGED <<removed, ticks>>
    /\ UNCHANGED <<dispatchVars, cacheVars, clients, callVars>>

\* RemoveSchedule(id): cron.Remove drops the entry with the id, if any.
RemoveSchedule(id) ==
    /\ pc = "idle"
    /\ ~Crashed
    /\ entries' = MapDelete(entries, id)
    /\ removed' = IF id \in DOMAIN entries THEN removed \cup {id} ELSE removed
    /\ UNCHANGED <<added, ticks>>
    /\ UNCHANGED <<dispatchVars, cacheVars, clients, callVars>>

\* The job of entry id up to a.Client.Send: the clone gets its id, the token
\* is asked for and put in the Authorization header.  When the request for
\* the token fails res is nil and `defer res.Body.Close()` panics; a body
\* that does not decode leaves the token empty.
cronTick(id, answer) ==
    /\ pc = "idle"
    /\ ~Crashed
    /\ id \in DOMAIN entries
    /\ Len(ticks) < MaxTicks
    /\ LET set == SetIDOnClone(entries[id].event, NewUUID)
           header == IF answer = "token" THEN "Bearer token" ELSE "Bearer "
       IN  /\ entries' = [entries EXCEPT ![id].event = set.template]
           /\ ticks' = Append(ticks,
                  Tick(id, entries[id], set.event, header,
                       IF answer = "failed" THEN "panic" ELSE "Send"))
    /\ UNCHANGED <<added, removed>>
    /\ UNCHANGED <<dispatchVars, cacheVars, clients, callVars>>

\* The tries of a send that the sink answers with `retries` results to be
\* retried before a result that ends the send: one more than the retries,
\* and no more than the first try and TickMaxTries retries.
Tries(retries) == IF retries < TickMaxTries THEN retries + 1 ELSE TickMaxTries + 1

\* a.Client.Send(ctx, event) of tick i: every try hands the event of the tick
\* to the sink.
clientSend(i, retries) ==
    /\ pc = "idle"
    /\ ~Crashed
    /\ i \in Ticks
    /\ ticks[i].at = "Send"
    /\ ticks' = [ticks EXCEPT ![i].sent = [k \in 1..Tries(retries) |-> ticks[i].event],
                              ![i].at = "finished"]
    /\ UNCHANGED <<entries, added, removed>>
    /\ UNCHANGED <<dispatchVars, cacheVars, clients, callVars>>

NextRunner ==
    \/ \E source \in PingSources : AddSchedule(source)
    \/ \E id \in 0..MaxSchedules : RemoveSchedule(id)
    \/ \E id \in 1..MaxSchedules, answer \in TokenAnswers : cronTick(id, answer)
    \/ \E i \in 1..MaxTicks, retries \in {0, 1, TickMaxTries, TickMaxTries + 1} :
           clientSend(i, retries)

SpecRunner == Init /\ [][NextRunner]_vars

----------------------------------------------------------------------------
\* The event that the PingSource of an entry describes, with the given id.
EventOf(source, id) == [makeEvent(source) EXCEPT !.ID = id]

\* C29: the event of an entry is, whatever ticks have run, the event that
\* AddSchedule made; every event a tick sends is that event with an id of
\* its own, the same id in every try of the tick, and no two ticks send the
\* same id.
C29_TickSendsCloneWithNewID ==
    /\ \A id \in DOMAIN entries :
           entries[id].event = makeEvent(entries[id].source)
    /\ \A i \in Ticks :
           /\ ticks[i].entry.event = makeEvent(ticks[i].entry.source)
           /\ ticks[i].event.ID # ticks[i].entry.event.ID
           /\ \A k \in DOMAIN ticks[i].sent :
                  ticks[i].sent[k] = EventOf(ticks[i].entry.source, ticks[i].event.ID)
    /\ \A i, j \in Ticks :
           i # j => \A k \in DOMAIN ticks[i].sent, l \in DOMAIN ticks[j].sent :
                        ticks[i].sent[k].ID # ticks[j].sent[l].ID

\* Two ticks of one entry have sent its event, with its data and extension,
\* the first in a single try and the second in all the tries a send has.
C29_Witness ==
    /\ Len(ticks) = 2
    /\ ticks[1].at = "finished" /\ ticks[2].at = "finished"
    /\ ticks[1].id = ticks[2].id
    /\ ticks[1].id \in DOMAIN entries
    /\ entries[ticks[1].id].event.Data = ShortBody
    /\ entries[ticks[1].id].event.Extensions = OneExtension
    /\ Len(ticks[1].sent) = 1
    /\ Len(ticks[2].sent) = TickMaxTries + 1

\* The data that a PingSource gives: its DataBase64, decoded, or its Data.
DataOf(source) ==
    IF source.DataBase64 # <<>> THEN StdDecode(source.DataBase64).buf
    ELSE IF source.Data # <<>> THEN source.Data ELSE Nil

\* The extension overrides that a PingSource gives.
OverridesOf(source) ==
    IF source.CloudEventOverrides # Nil THEN source.CloudEventOverrides ELSE NoExtensions

\* Tick i handed one event to the sink, with the content type, the data and
\* the extension overrides of the PingSource of its entry.
SendsEventOfPingSource(i) ==
    /\ ticks[i].sent # <<>>
    /\ Cardinality(Range(ticks[i].sent)) = 1
    /\ \A k \in DOMAIN ticks[i].sent :
           /\ ticks[i].sent[k].DataContentType = ticks[i].entry.source.ContentType
           /\ ticks[i].sent[k].Data = DataOf(ticks[i].entry.source)
           /\ ticks[i].sent[k].Extensions = OverridesOf(ticks[i].entry.source)

\* C30, as stated: every run of the job of an entry, once it is over, has
\* sent one event to the sink, with the content type, data and extension
\* overrides of the PingSource; an entry that RemoveSchedule removed is not
\* in the cron.
C30_RunSendsOneEvent ==
    /\ \A i \in Ticks : ticks[i].at # "Send" => SendsEventOfPingSource(i)
    /\ removed \cap DOMAIN entries = {}

\* The same for the runs in which the token endpoint answers and for the
\* PingSources with data: what the runner does when the job does not panic.
C30_AnsweredRunSendsOneEvent ==
    /\ \A i \in Ticks :
           (ticks[i].at = "finished" /\ DataOf(ticks[i].entry.source) # Nil)
               => SendsEventOfPingSource(i)
    /\ removed \cap DOMAIN entries = {}

\* A run that is over without an event sent: the job panicked.
C30_PanickedRun ==
    \E i \in Ticks : ticks[i].at = "panic" /\ ticks[i].sent = <<>>

----------------------------------------------------------------------------
\* Functions checked by themselves: the state is the arguments of one call
\* (input) and what the call returned (output); nothing else is going on.

InitCall(inputs) ==
    /\ input \in inputs
    /\ output = Nil
    /\ pc = "idle"
    /\ message = Nil
    /\ destination = Nil
    /\ config = Nil
    /\ hop = Nil
    /\ attempt = 0
    /\ response = Nil
    /\ executed = Nil
    /\ hopErr = Nil
    /\ responseMessage = Nil
    /\ responseAdditionalHeaders = Nil
    /\ dispatchExecutionInfo = Nil
    /\ requests = <<>>
    /\ clients = [k \in {} |-> Nil]
    /\ messagesToFinish = <<>>
    /\ finished = <<>>
    /\ ret = Nil
    /\ hops = <<>>
    /\ clientsMutex = FALSE
    /\ connectionArgs = Nil
    /\ calls = [g \in Goroutines |-> Nil]
    /\ log = <<>>
    /\ entries = [id \in {} |-> Nil]
    /\ added = 0
    /\ removed = {}
    /\ ticks = <<>>

----------------------------------------------------------------------------
\* OIDCTokenVerifier.VerifyJWT (package auth): the token is reviewed by the
\* API server, which is the environment.

\* authv1.UserInfo; the zero value has an empty username.
UserInfo(username) == [Username |-> username]
ZeroUserInfo == UserInfo("")

\* authv1.TokenReviewStatus
TokenReviewStatus(authenticated, user, audiences, error) ==
    [Authenticated |-> authenticated, User |-> user, Audiences |-> audiences,
     Error |-> error]
ZeroTokenReviewStatus == TokenReviewStatus(FALSE, ZeroUserInfo, {}, "")

\* authv1.TokenReview
TokenReview(token, audiences, status) ==
    [Spec |-> [Token |-> token, Audiences |-> audiences], Status |-> status]

\* What TokenReviews().Create returns: a review and an error.
CreateResult(result, err) == [result |-> result, err |-> err]

TokenAudiences == {"broker-a", "broker-b"}
JWTs == {"jwt-1", "jwt-2", "jwt-3"}

\* The statuses the API server reports: of a token it authenticates, the
\* user and the audiences of the request that the token is valid for (none
\* when the authenticator knows no audiences); of a token it does not
\* authenticate, a zero user, with and without an error.
TokenReviewStatuses ==
    {TokenReviewStatus(TRUE, UserInfo(u), a, "") :
        u \in {"alice", "bob"}, a \in SUBSET TokenAudiences}
    \cup {TokenReviewStatus(FALSE, ZeroUserInfo, {}, e) :
        e \in {"", "token expired"}}
    \cup {TokenReviewStatus(TRUE, UserInfo("alice"), {}, "webhook failed")}

\* The answers to Create for a request: the request with a status, or an
\* error and no review.
CreateResults(request) ==
    {CreateResult([request EXCEPT !.Status = status], Nil) :
        status \in TokenReviewStatuses}
    \cup {CreateResult(Nil, Error("connection refused", <<>>, <<>>, 0))}

\* The tokenReview that VerifyJWT builds.
tokenReviewOf(jwt, audience) == TokenReview(jwt, {audience}, ZeroTokenReviewStatus)

VerifyJWTCall(jwt, audience, created) ==
    [jwt |-> jwt, audience |-> audience, created |-> created]

VerifyJWTCalls ==
    {VerifyJWTCall(jwt, audience, created) :
        jwt \in JWTs, audience \in TokenAudiences,
        created \in UNION {CreateResults(tokenReviewOf(j, a)) :
                                j \in JWTs, a \in TokenAudiences}}

\* VerifyJWT(ctx, jwt, audience).  Create does not write to the review it is
\* handed, so the User of tokenReview that is returned is the one the review
\* was built with.
VerifyJWT(jwt, audience, created) ==
    LET tokenReview == tokenReviewOf(jwt, audience)
        tokenReviewResult == created.result
    IN  IF created.err # Nil
        THEN [user |-> Nil,
              err |-> Error("could not create token review: %w", <<>>, <<created.err>>, 0)]
        ELSE IF tokenReviewResult.Status.Error # ""
        THEN [user |-> Nil, err |-> Error(tokenReviewResult.Status.Error, <<>>, <<>>, 0)]
        ELSE IF ~tokenReviewResult.Status.Authenticated
        THEN [user |-> Nil,
              err |-> Error("token review status: user not authenticated", <<>>, <<>>, 0)]
        ELSE [user |-> tokenReview.Status.User, err |-> Nil]

\* The answer of the API server is to the request that VerifyJWT made.
InitVerify ==
    /\ InitCall(VerifyJWTCalls)
    /\ input.created.result # Nil =>
           input.created.result.Spec = tokenReviewOf(input.jwt, input.audience).Spec

VerifyJWTReturns ==
    /\ pc = "idle"
    /\ input # Nil
    /\ output = Nil
    /\ output' = VerifyJWT(input.jwt, input.audience, input.created)
    /\ UNCHANGED input
    /\ UNCHANGED <<dispatchVars, cacheVars, runnerVars, clients>>

NextVerify == VerifyJWTReturns

SpecVerify == InitVerify /\ [][NextVerify]_vars

\* The review authenticates the token of the call for its audience.
Authenticates(call) ==
    /\ call.created.err = Nil
    /\ call.created.result.Status.Error = ""
    /\ call.created.result.Status.Authenticated
    /\ call.audience \in call.created.result.Status.Audiences

\* The review cannot be created, reports an error or does not authenticate.
Rejects(call) ==
    \/ call.created.err # Nil
    \/ call.created.result.Status.Error # ""
    \/ ~call.created.result.Status.Authenticated

\* C31, as stated: VerifyJWT returns the user that the review reports, and no
\* error, when the review authenticates the token for the expected audience;
\* it returns an error and no user when the review cannot be created, reports
\* an error or does not authenticate the token.
C31_VerifyJWTReturnsReviewedUser ==
    output # Nil =>
        /\ Authenticates(input) =>
               /\ output.err = Nil
               /\ output.user = input.created.result.Status.User
        /\ Rejects(input) => output.err # Nil /\ output.user = Nil

\* The second half alone, and what is returned in place of the first.
C31_RejectedWithoutUser ==
    output # Nil =>
        /\ Rejects(input) => output.err # Nil /\ output.user = Nil
        /\ ~Rejects(input) => output.err = Nil /\ output.user = ZeroUserInfo

\* An authenticated token for which VerifyJWT has returned a zero user.
C31_ZeroUserReturned ==
    /\ output # Nil
    /\ Authenticates(input)
    /\ input.created.result.Status.User = UserInfo("alice")
    /\ output.user = ZeroUserInfo
    /\ output.err = Nil

----------------------------------------------------------------------------
\* The hops that have returned a DispatchInfo.
ReturnedHops == {i \in DOMAIN hops : hops[i].executed # Nil}

\* No request of hop h was started; no HTTP response came back in hop h.
NeverStarted(h) == h.attempts = 0
NoResponseReceived(h) == h.attempts = 0 \/ h.result.err # Nil

\* The call was for a nil destination.URL and has returned.
ReturnedForNilDestination == pc = "returned" /\ destination.URL = Nil

\* C32, as stated: a DispatchInfo has Duration = NoDuration when no request
\* was started and ResponseCode = NoResponse when no HTTP response was
\* received: in a hop that built no request, got no client or ended in a
\* transport error, and in a call for a nil destination.
C32_SentinelsWithoutResponse ==
    /\ \A i \in ReturnedHops :
           /\ NeverStarted(hops[i]) => hops[i].executed.info.Duration = NoDuration
           /\ NoResponseReceived(hops[i]) =>
                  hops[i].executed.info.ResponseCode = NoResponse
    /\ ReturnedForNilDestination =>
           /\ ret.info.Duration = NoDuration
           /\ ret.info.ResponseCode = NoResponse

\* What holds: the hops in which no request was started return both
\* sentinels, and the hops that were started return neither.
C32_SentinelsOfHopsNeverStarted ==
    \A i \in ReturnedHops :
        /\ NeverStarted(hops[i]) <=> hops[i].executed.info.Duration = NoDuration
        /\ NeverStarted(hops[i]) <=> hops[i].executed.info.ResponseCode = NoResponse

\* A hop whose only attempt ended in a transport error has returned status
\* 500 for a response that never came.
C32_TransportErrorReturnedAs500 ==
    \E i \in ReturnedHops :
        /\ hops[i].attempts = 1
        /\ hops[i].result.err # Nil
        /\ hops[i].executed.info.ResponseCode = StatusInternalServerError

\* A call for a nil destination has returned the zero DispatchInfo.
C32_NilDestinationReturnedZero ==
    /\ ReturnedForNilDestination
    /\ ret.info.Duration = 0
    /\ ret.info.ResponseCode = 0

----------------------------------------------------------------------------
\* The addressable that the caller passed for the hops of a kind.
ArgumentOf(kind) ==
    IF kind = "destination" THEN input.destination
    ELSE IF kind = "reply" THEN input.reply
    ELSE input.deadLetterSink

\* The addressables of the call in progress, as the caller passed them.
ArgumentsOfCall ==
    IF input = Nil THEN {}
    ELSE {input.destination, input.reply, input.deadLetterSink} \ {Nil}

\* What C33 says of sanitizeURL for the URL u.
SanitizedAsStated(u) ==
    /\ u = Nil => sanitizeURL(u) = Nil
    /\ (u # Nil /\ u.Scheme \in {"http", "https"}) => sanitizeURL(u) = u
    /\ (u # Nil /\ u.Scheme \notin {"http", "https"}) =>
           /\ sanitizeURL(u).Scheme = "http"
           /\ sanitizeURL(u).Host = u.Host
           /\ sanitizeURL(u).Path = "/"
    /\ sanitizeURL(sanitizeURL(u)) = sanitizeURL(u)

\* C33: sanitizeURL rewrites a URL without http or https scheme to
\* http://<host>/, leaves the others and nil as they are and is idempotent;
\* every hop, every request and every key of the client cache of a dispatch
\* call has the sanitized URL of the addressable that the caller passed.
C33_SanitizedBeforeUse ==
    /\ \A a \in ArgumentsOfCall : SanitizedAsStated(a.URL)
    /\ \A i \in DOMAIN AllHops :
           AllHops[i].target.URL = sanitizeURL(ArgumentOf(AllHops[i].kind).URL)
    /\ \A i \in DOMAIN requests :
           requests[i].url = URLString(sanitizeURL(ArgumentOf(requests[i].hop).URL))
    /\ \A key \in DOMAIN clients :
           \E a \in ArgumentsOfCall : key = URLString(sanitizeURL(a.URL))

\* A destination without scheme and a dead-letter sink with scheme ftp and a
\* path have both been sent to, at http://dest/ and http://dls/.
C33_Witness ==
    /\ pc = "returned"
    /\ input.destination.URL = URLOf("", "dest", "")
    /\ input.deadLetterSink # Nil
    /\ input.deadLetterSink.URL = URLOf("ftp", "dls", "/files")
    /\ \E i \in RequestsTo("destination") : requests[i].url = "http://dest/"
    /\ \E i \in RequestsTo("deadLetter") : requests[i].url = "http://dls/"
    /\ DOMAIN clients = {"http://dest/", "http://dls/"}

----------------------------------------------------------------------------
\* dispatchExecutionInfoTransformers by itself, for the DispatchInfo of a
\* failed hop with response bodies of lengths around the places where the
\* base64 text gets a group longer and where it reaches the length of the
\* extension.

OneByteBody == <<104>>
ThreeByteBody == <<104, 105, 33>>
FourByteBody == <<104, 105, 33, 10>>

FailureBodies ==
    {EmptyBody, OneByteBody, ShortBody, ThreeByteBody, FourByteBody,
     FittingBody, LongBody}

FailureCodes == {StatusMultipleChoices, StatusInternalServerError, StatusServiceUnavailable}

FailedDestinations ==
    {URLOf("http", "dest", "/"), URLOf("https", "dest", "/path"), URLOf("", "dest", "")}

TransformersCall(dest, info) == [destination |-> dest, info |-> info]

TransformersCalls ==
    {TransformersCall(dest, DispatchInfo(1, code, EmptyHeader, body)) :
        dest \in FailedDestinations, code \in FailureCodes, body \in FailureBodies}

InitTransformers == InitCall(TransformersCalls)

dispatchExecutionInfoTransformersReturns ==
    /\ pc = "idle"
    /\ input # Nil
    /\ output = Nil
    /\ output' = dispatchExecutionInfoTransformers(input.destination, input.info)
    /\ UNCHANGED input
    /\ UNCHANGED <<dispatchVars, cacheVars, runnerVars, clients>>

NextTransformers == dispatchExecutionInfoTransformersReturns

SpecTransformers == InitTransformers /\ [][NextTransformers]_vars

IsPrefix(s, t) == Len(s) <= Len(t) /\ s = SubSeq(t, 1, Len(s))

\* C34, as stated: for a response body of any length the transformers are
\* built without a panic, and the knativeerrordata they set is a prefix, of
\* at most KnativeErrorDataExtensionMaxLength characters, of the base64
\* encoding of the body.
C34_EncodedBodyTruncated ==
    output # Nil =>
        /\ ~output.panic
        /\ Len(output.transformers.knativeerrordata) <= KnativeErrorDataExtensionMaxLength
        /\ IsPrefix(output.transformers.knativeerrordata,
                    StdEncode(input.info.ResponseBody))

\* The same for the bodies whose encoding fits the extension, which is then
\* the whole encoding.
C34_FittingBodyEncoded ==
    (/\ output # Nil
     /\ EncodedLen(Len(input.info.ResponseBody)) <= KnativeErrorDataExtensionMaxLength)
        => /\ ~output.panic
           /\ output.transformers.knativeerrordata = StdEncode(input.info.ResponseBody)

\* The body one byte longer than the longest that fits has made Encode panic.
C34_LongBodyPanics ==
    /\ output # Nil
    /\ input.info.ResponseBody = LongBody
    /\ output.panic
    /\ EncodedLen(Len(LongBody)) = KnativeErrorDataExtensionMaxLength + 4

----------------------------------------------------------------------------
\* The body of the response that hop h got could not be read.
BodyUnread(h) ==
    /\ h.outcome # "running"
    /\ h.attempts >= 1
    /\ h.result.err = Nil
    /\ h.result.resp.readErr

\* C35, as stated: no dispatch call ends in a panic; a hop whose response
\* body cannot be read returns, with a DispatchInfo in a failure and with no
\* error after a 2xx response.
C35_FailuresAreReturned ==
    /\ pc # "panic"
    /\ \A i \in DOMAIN hops :
           /\ hops[i].outcome # "panic"
           /\ BodyUnread(hops[i]) =>
                  /\ hops[i].executed # Nil
                  /\ hops[i].executed.info.ResponseCode = hops[i].result.resp.StatusCode
                  /\ isFailure(hops[i].result.resp.StatusCode) <=>
                         hops[i].executed.err # Nil

\* What holds: the hops that get no response, or one whose body is read,
\* return; all those whose body cannot be read panic.
C35_UnreadBodyPanics ==
    \A i \in DOMAIN hops :
        (hops[i].outcome = "panic") <=> BodyUnread(hops[i])

\* The destination answered 200 and 500 with bodies that could not be read,
\* in two ways to end the same call in a panic.
C35_PanicAfterSuccessResponse ==
    /\ pc = "panic"
    /\ Len(hops) = 1
    /\ BodyUnread(hops[1])
    /\ hops[1].result.resp.StatusCode = StatusOK

C35_PanicAfterFailureResponse ==
    /\ pc = "panic"
    /\ Len(hops) = 1
    /\ BodyUnread(hops[1])
    /\ hops[1].result.resp.StatusCode = StatusInternalServerError

----------------------------------------------------------------------------
\* C36, as stated: when SendMessage has returned, the addressables that the
\* caller passed through WithReply and WithDeadLetterSink, which config.reply
\* and config.deadLetterSink point to, have the URL they were passed with.
C36_CallerAddressablesUnchanged ==
    pc = "returned" =>
        /\ config.reply = input.reply
        /\ config.deadLetterSink = input.deadLetterSink

\* What holds: the addressables of the caller have the sanitized URL once
\* send is past its nil check, and nothing else of them has changed.
C36_CallerAddressablesSanitized ==
    (pc = "returned" /\ input.destination.URL # Nil) =>
        /\ config.reply = sanitizeAddressable(input.reply)
        /\ config.deadLetterSink = sanitizeAddressable(input.deadLetterSink)

\* A call has returned and left http://reply/ in the reply addressable that
\* the caller passed without a scheme.
C36_ReplyRewritten ==
    /\ pc = "returned"
    /\ input.reply # Nil
    /\ input.reply.URL = URLOf("", "reply", "")
    /\ config.reply.URL = URLOf("http", "reply", "/")

\* The same for a dead-letter sink passed with scheme ftp and a path.
C36_DeadLetterSinkRewritten ==
    /\ pc = "returned"
    /\ input.deadLetterSink # Nil
    /\ input.deadLetterSink.URL = URLOf("ftp", "dls", "/files")
    /\ config.deadLetterSink.URL = URLOf("http", "dls", "/")

----------------------------------------------------------------------------
\* The cache between the handlers of addressables and dispatch: the handlers
\* are called with an addressable as it is, newClient of a dispatch to the
\* addressable with what send made of it (sanitizeAddressable).

PoolAddressables ==
    {Addressable(URLOf("http", "dest", "/"), Nil),
     Addressable(URLOf("", "dest", ""), Nil),
     Addressable(URLOf("https", "dls", "/"), CACerts("ca1")),
     Addressable(URLOf("ftp", "dls", "/files"), CACerts("ca1"))}

NextPool ==
    \/ \E g \in Goroutines, addressable \in PoolAddressables :
          \/ Lock(g, "getClientForAddressable", sanitizeAddressable(addressable))
          \/ Lock(g, "AddOrUpdateAddressableHandler", addressable)
          \/ Lock(g, "DeleteAddressableHandler", addressable)
    \/ \E g \in Goroutines : getClientForAddressableReturns(g)
    \/ \E g \in Goroutines : AddOrUpdateAddressableHandler(g)
    \/ \E g \in Goroutines : DeleteAddressableHandler(g)

SpecPool == Init /\ [][NextPool]_vars

\* Call j is the first newClient of a dispatch to the addressable of call i
\* after call i, and no handler was called between the two.
NextDispatchTo(i, j) ==
    /\ j \in Gets
    /\ i < j
    /\ log[j].arg = sanitizeAddressable(log[i].arg)
    /\ NoWriteBetween(i, j)
    /\ \A k \in (i + 1)..(j - 1) : log[k].arg # log[j].arg

\* Dispatch looks for its client under the key of handler call i and gets
\* the client that an upsert stored, a new one after an invalidate.
HandlerReachesDispatch(i, j) ==
    /\ log[j].clientKey = log[i].clientKey
    /\ i \in Upserts => log[j].client = log[i].client /\ ~log[j].created
    /\ i \in Deletes => log[j].created

\* C37, as stated: for every addressable, with or without http or https
\* scheme, the next dispatch to it after an upsert or invalidate looks under
\* the key of the handler and is sent with the client of the upsert, or with
\* a new client after the invalidate.
C37_HandlersAndDispatchShareKey ==
    \A i \in Upserts \cup Deletes, j \in DOMAIN log :
        NextDispatchTo(i, j) => HandlerReachesDispatch(i, j)

\* The same for the addressables with scheme http or https.
C37_HandlersAndDispatchShareKeyOfHTTP ==
    \A i \in Upserts \cup Deletes, j \in DOMAIN log :
        (NextDispatchTo(i, j) /\ log[i].arg.URL.Scheme \in {"http", "https"})
            => HandlerReachesDispatch(i, j)

\* An upsert for the host-only //dest stored its client under "//dest"; the
\* dispatch to it looked under "http://dest/" and made a client of its own.
C37_UpsertMissedByDispatch ==
    /\ Len(log) = 2
    /\ 1 \in Upserts /\ 2 \in Gets
    /\ log[1].arg.URL = URLOf("", "dest", "")
    /\ log[2].arg = sanitizeAddressable(log[1].arg)
    /\ log[1].clientKey = "//dest"
    /\ log[2].clientKey = "http://dest/"
    /\ log[2].created
    /\ log[2].client # log[1].client
    /\ DOMAIN clients = {"//dest", "http://dest/"}

\* An invalidate for the host-only //dest left the client of http://dest/
\* in the cache, and the next dispatch was sent with it.
C37_InvalidateMissedByDispatch ==
    /\ Len(log) = 3
    /\ 1 \in Gets /\ 2 \in Deletes /\ 3 \in Gets
    /\ log[2].arg.URL = URLOf("", "dest", "")
    /\ log[1].arg = sanitizeAddressable(log[2].arg)
    /\ log[3].arg = log[1].arg
    /\ log[3].client = log[1].client
    /\ ~log[3].created

----------------------------------------------------------------------------
\* The upserts that made no client.
FailedUpserts == {i \in Upserts : log[i].err # Nil}

\* C38: an upsert that cannot make a client, its CA certificates being
\* unparsable, leaves the cache as it found it: the entry of the URL, if
\* there was one, with its client, no entry if there was none, and every
\* other entry.
C38_FailedUpsertLeavesCache ==
    /\ \A i \in Upserts : log[i].err # Nil <=> ~TrustMaterialParses(log[i].arg)
    /\ \A i \in FailedUpserts :
           /\ CacheAfter(i) = log[i].before
           /\ ~log[i].created
           /\ log[i].closed = {}

\* Two upserts have failed: the first found no entry for the URL and left
\* none, the second found the client of a getClient and left it.
C38_Witness ==
    /\ Len(log) = 3
    /\ FailedUpserts = {1, 3}
    /\ 2 \in Gets
    /\ log[2].clientKey = log[1].clientKey
    /\ log[3].clientKey = log[1].clientKey
    /\ log[1].before = [k \in {} |-> Nil]
    /\ log[2].before = [k \in {} |-> Nil]
    /\ log[2].created
    /\ DOMAIN clients = {log[3].clientKey}
    /\ clients[log[3].clientKey] = log[2].client

----------------------------------------------------------------------------
\* The last hop of the call.
LastHop == hops[Len(hops)]

\* The DispatchInfo is the one hop h returned; send may have set the
\* namespace header of the call on its response headers.
Describes(info, h) ==
    /\ h.executed # Nil
    /\ info.Duration = h.executed.info.Duration
    /\ info.ResponseCode = h.executed.info.ResponseCode
    /\ info.ResponseBody = h.executed.info.ResponseBody
    /\ \/ info.ResponseHeader = h.executed.info.ResponseHeader
       \/ info.ResponseHeader = WithNamespaceHeader(h.executed.info.ResponseHeader)

\* C39: the DispatchInfo that a call returns is the one of the last hop it
\* executed, which is the dead-letter hop when there was one, else the
\* reply hop when there was one, else the destination hop.
C39_DispatchInfoOfLastHop ==
    (pc = "returned" /\ hops # <<>>) =>
        /\ Describes(ret.info, LastHop)
        /\ LastHop.kind =
               IF HopsOf("deadLetter") # {} THEN "deadLetter"
               ELSE IF HopsOf("reply") # {} THEN "reply"
               ELSE "destination"

\* The reply failed with 500 and a body, the dead-letter sink answered 200:
\* the call returned the 200 of the dead-letter hop.
C39_Witness ==
    /\ pc = "returned"
    /\ Len(hops) = 3
    /\ hops[1].kind = "destination" /\ hops[2].kind = "reply"
    /\ hops[3].kind = "deadLetter"
    /\ hops[2].executed.info.ResponseCode = StatusInternalServerError
    /\ hops[2].executed.info.ResponseBody = ShortBody
    /\ hops[3].executed.info.ResponseCode = StatusOK
    /\ ret.info.ResponseCode = StatusOK
    /\ ret.info.ResponseBody = EmptyBody
    /\ ret.err = Nil

----------------------------------------------------------------------------
\* Termination of a dispatch call.  The call is one goroutine, so that a step
\* that can be taken is taken, and every HTTP attempt is answered, which is
\* the step clientDo: weak fairness of the next-state relation.
SpecLive == Init /\ [][Next]_vars /\ WF_vars(Next)

\* The RetryMax of the call: 0 without a RetryConfig.
RetryMaxOfCall ==
    IF config = Nil THEN 0
    ELSE IF config.retryConfig = Nil THEN 0 ELSE config.retryConfig.RetryMax

\* At most three hops, one of each kind and so one dead-letter send, and at
\* most RetryMax + 1 attempts in every hop.
HopsAndAttemptsBounded ==
    /\ Len(AllHops) <= 3
    /\ \A kind \in {"destination", "reply", "deadLetter"} :
           Cardinality({i \in DOMAIN AllHops : AllHops[i].kind = kind}) <= 1
    /\ \A i \in DOMAIN AllHops : AllHops[i].attempts <= RetryMaxOfCall + 1
    /\ \A kind \in {"destination", "reply", "deadLetter"} :
           Cardinality(RequestsTo(kind)) <= RetryMaxOfCall + 1

\* C40, as stated: every dispatch call that is started returns, within the
\* bounds on its hops and attempts.
C40_EveryCallReturns ==
    /\ []HopsAndAttemptsBounded
    /\ (pc = "send") ~> (pc = "returned")

\* What holds: every call that is started ends, by a return or by a panic,
\* within the bounds.
C40_EveryCallEnds ==
    /\ []HopsAndAttemptsBounded
    /\ (pc = "send") ~> Ended

====
